---- MODULE Spec2Model ----
(***************************************************************************)
(* Contact extraction pipeline of contact_parser: the deduplicator, the    *)
(* contact assembler and scorer, the signature locator, the phone          *)
(* formatter and the mailbox orchestrator, modelled from the Python        *)
(* sources.  Strings are sequences of one-character strings, so that       *)
(* lower(), strip(), split() and the regular-expression substitutions are  *)
(* computed as the code computes them.  Scores are kept in tenths          *)
(* (0.3 -> 3): every score the code produces is round(sum of weights, 2).  *)
(***************************************************************************)
EXTENDS Integers, Sequences, FiniteSets, TLC

VARIABLES
    contacts,          \* deduplicate_contacts: the argument list
    unique_contacts,   \* deduplicate_contacts: the returned list
    deduped_again,     \* the result of a second application to unique_contacts
    dd_pc,             \* position of the deduplication driver
    internal_domains,  \* data/internal_domains.txt, lower-cased lines
    blacklist_emails,  \* data/blacklist.txt
    company_blacklist, \* data/company_blacklist.txt
    stop_words_person, \* data/stop_words_person.txt
    stop_words_org,    \* data/stop_words_org.txt
    arg_email_body,        \* process_email_signature: the argument email_body
    arg_external_emails,   \* process_email_signature: the argument external_emails
    tagger_answer,     \* what the environment answers: the spans of the tagger
                       \* and the iteration order of sets
    returned,          \* process_email_signature: how the call ended
    block_calls,       \* the calls of _process_signature_block it made
    cp_stats,          \* ContactProcessor.stats
    sig_pc,            \* position of the caller of process_email_signature
    mailbox,           \* process_emails: the messages the search returned
    msg_index,         \* process_emails: the message the loop is at
    processed_contacts, \* process_emails: the contacts collected so far
    run_result,        \* process_emails: the returned list
    imap_stats,        \* IMAPClient.stats
    run_pc,            \* position of process_emails
    phone_text,        \* the text given to a phone extractor
    phone_match,       \* _process_single_phone: the match it was called for
    phone_found,       \* the list the extractor returned
    phone_pc,          \* which extractor was called
    located_body,      \* _extract_clean_signatures: the argument email_body
    located_blocks,    \* _extract_clean_signatures: the returned list
    locate_pc,         \* position of the caller of _extract_clean_signatures
    expand_context,    \* _expand_job_contextually: the argument context
    expand_indicator,  \* _expand_job_contextually: the argument base_indicator
    expand_title,      \* _expand_job_contextually: the returned value
    expand_pc,         \* position of the caller of _expand_job_contextually
    mail_date,         \* process_emails: the Date header of the message
    date_str,          \* process_emails: the date passed to the contact processor
    email_date,        \* _process_signature_block: the email_date of the Contact
    date_pc,           \* position on the path of the date
    mail,              \* RobustIMAPConnection.mail: the state of the connection
    fetch_attempt,     \* safe_fetch: the variable attempt of the loop
    fetch_log,         \* safe_fetch: the calls of fetch and of connect it made
    fetch_result,      \* safe_fetch: how the call ended
    fetch_pc,          \* position of safe_fetch
    month_days,        \* fetch_emails_month_robust: the messages of each day
    day_counter,       \* fetch_emails_month_robust: the day the loop is at
    msg_pos,           \* fetch_emails_month_robust: the message of the day
    processed_emails,  \* fetch_emails_month_robust: the counter of the records
    all_records,       \* fetch_emails_month_robust: the records
    reconnect_log,     \* the value of processed_emails at each preventive connect
    fetch_calls,       \* the messages safe_fetch was called for
    month_pc           \* position of fetch_emails_month_robust

DedupVars == <<contacts, unique_contacts, deduped_again, dd_pc>>

ConfigVars ==
    <<internal_domains, blacklist_emails, company_blacklist, stop_words_person,
      stop_words_org>>

SigVars ==
    <<arg_email_body, arg_external_emails, tagger_answer, returned, block_calls, cp_stats, sig_pc>>

RunVars == <<mailbox, msg_index, processed_contacts, run_result, imap_stats, run_pc>>

PhoneVars == <<phone_text, phone_match, phone_found, phone_pc>>

LocateVars == <<located_body, located_blocks, locate_pc>>

ExpandVars == <<expand_context, expand_indicator, expand_title, expand_pc>>

DateVars == <<mail_date, date_str, email_date, date_pc>>

\* the variables of the operations that are called on their own: the title
\* expansion of position_extractor.py, the path of the date of a message and
\* the functions of seven_months_extractor.py
FetchVars == <<mail, fetch_attempt, fetch_log, fetch_result, fetch_pc>>

MonthVars ==
    <<month_days, day_counter, msg_pos, processed_emails, all_records, reconnect_log,
      fetch_calls, month_pc>>

\* the variables of seven_months_extractor.py
ExtractorVars == <<FetchVars, MonthVars>>

UnitVars == <<ExpandVars, DateVars, ExtractorVars>>

vars == <<contacts, unique_contacts, deduped_again, dd_pc, internal_domains,
          blacklist_emails, company_blacklist, stop_words_person, stop_words_org,
          arg_email_body, arg_external_emails, tagger_answer, returned, block_calls,
          cp_stats, sig_pc, mailbox, msg_index, processed_contacts, run_result,
          imap_stats, run_pc, phone_text, phone_match, phone_found, phone_pc,
          located_body, located_blocks, locate_pc,
          expand_context, expand_indicator, expand_title, expand_pc,
          mail_date, date_str, email_date, date_pc,
          mail, fetch_attempt, fetch_log, fetch_result, fetch_pc, month_days,
          day_counter, msg_pos, processed_emails, all_records, reconnect_log,
          fetch_calls, month_pc>>

(***************************************************************************)
(* Strings                                                                 *)
(***************************************************************************)
UpperLatin == <<"A","B","C","D","E","F","G","H","I","J","K","L","M",
                "N","O","P","Q","R","S","T","U","V","W","X","Y","Z">>

LowerLatin == <<"a","b","c","d","e","f","g","h","i","j","k","l","m",
                "n","o","p","q","r","s","t","u","v","w","x","y","z">>

\* Cyrillic letters, written as ~ and a transliteration: "~I" is the capital
\* letter I of the Russian alphabet, "~i" the small one
UpperCyr == <<"~A","~B","~V","~G","~D","~E","~Yo","~Zh","~Z","~I","~J","~K",
              "~L","~M","~N","~O","~P","~R","~S","~T","~U","~F","~H","~C",
              "~Ch","~Sh","~Sch","~Hd","~Y","~Sf","~Eh","~Yu","~Ya">>

LowerCyr == <<"~a","~b","~v","~g","~d","~e","~yo","~zh","~z","~i","~j","~k",
              "~l","~m","~n","~o","~p","~r","~s","~t","~u","~f","~h","~c",
              "~ch","~sh","~sch","~hd","~y","~sf","~eh","~yu","~ya">>

Range(s) == {s[i] : i \in 1..Len(s)}

IndexIn(s, c) == IF c \in Range(s) THEN CHOOSE i \in 1..Len(s) : s[i] = c ELSE 0

\* the lower-case letter of every upper-case letter
LowerOf ==
    [c \in Range(UpperLatin) \cup Range(UpperCyr) |->
        IF c \in Range(UpperLatin) THEN LowerLatin[IndexIn(UpperLatin, c)]
        ELSE LowerCyr[IndexIn(UpperCyr, c)]]

UpperLetters == DOMAIN LowerOf

\* the upper-case letter of every lower-case letter
UpperOf ==
    [c \in Range(LowerLatin) \cup Range(LowerCyr) |->
        IF c \in Range(LowerLatin) THEN UpperLatin[IndexIn(LowerLatin, c)]
        ELSE UpperCyr[IndexIn(LowerCyr, c)]]

LowerLetters == DOMAIN UpperOf

\* str.lower() on one character
lower_char(c) == IF c \in UpperLetters THEN LowerOf[c] ELSE c

\* str.upper() on one character
upper_char(c) == IF c \in LowerLetters THEN UpperOf[c] ELSE c

\* str.lower()
lower(s) == [i \in 1..Len(s) |-> lower_char(s[i])]

\* the characters Python's str.strip() and the regex class \s treat as space
WhiteSpace == {" ", "\t", "\n", "\r"}

IsSpace(c) == c \in WhiteSpace

\* str.strip()
strip(s) ==
    LET keep == {i \in 1..Len(s) : ~IsSpace(s[i])}
    IN  IF keep = {} THEN <<>>
        ELSE LET lo == CHOOSE i \in keep : \A j \in keep : i <= j
                 hi == CHOOSE i \in keep : \A j \in keep : j <= i
             IN  SubSeq(s, lo, hi)

\* re.sub(<class>+, ' ', s): every maximal run of characters of the class
\* becomes one space
sub_runs(s, class, i) ==
    LET starts_or_other(k) == ~(s[k] \in class /\ k > 1 /\ s[k-1] \in class)
        kept == SelectSeq([k \in 1..Len(s) |-> k], starts_or_other)
    IN  [k \in 1..Len(kept) |-> IF s[kept[k]] \in class THEN " " ELSE s[kept[k]]]

\* re.sub(r'\s+', ' ', s)
collapse_whitespace(s) == sub_runs(s, WhiteSpace, 1)

\* re.sub(r's+', ' ', s): the pattern of line 856, which has no backslash and
\* so matches runs of the letter s
sub_letter_s(s) == sub_runs(s, {"s"}, 1)

(***************************************************************************)
(* Regular expressions (Python's re): a backtracking matcher over a        *)
(* pattern tree.  A pattern is one of                                      *)
(*   <<"cls", S>>          one character of the set S                      *)
(*   <<"not", S>>          one character outside S                         *)
(*   <<"any">>             . (any character but a newline)                 *)
(*   <<"lit", <<S, ...>>>> a literal: one character of each set in turn    *)
(*   <<"seq", <<p, ...>>>> concatenation                                   *)
(*   <<"alt", <<p, ...>>>> alternation, leftmost first                     *)
(*   <<"rep", p, lo, hi>>  greedy repetition p{lo,hi}                      *)
(*   <<"lazy", p, lo, hi>> lazy repetition p{lo,hi}?                       *)
(*   <<"grp", name, p>>    a capturing group                               *)
(*   <<"bol">> <<"eol">> <<"wb">>   ^, $ and \b                            *)
(* The matcher tries the alternatives in the order Python's engine does,   *)
(* so the first match found and its groups are Python's.                   *)
(***************************************************************************)
Inf == 1000

Digits == {"0","1","2","3","4","5","6","7","8","9"}

Letters == Range(UpperLatin) \cup Range(LowerLatin) \cup Range(UpperCyr) \cup Range(LowerCyr)

\* \w
WordChars == Letters \cup Digits \cup {"_"}

NoMatch == [ok |-> FALSE, end |-> 0, caps |-> <<>>]

IsWordAt(s, i) == i >= 1 /\ i <= Len(s) /\ s[i] \in WordChars

\* the characters a pattern character matches under re.IGNORECASE
both_cases(S) == S \cup {lower_char(c) : c \in S} \cup {upper_char(c) : c \in S}

\* one character c against a one-character pattern
char_ok(p, c) ==
    CASE p[1] = "cls" -> c \in p[2]
      [] p[1] = "not" -> c \notin p[2]
      [] p[1] = "any" -> c # "\n"
      [] OTHER -> FALSE

IsCharPattern(p) == p[1] \in {"cls", "not", "any"}

\* the number of characters from position i on that match the one-character
\* pattern p, at most limit
first_bad(p, s, i, n) ==
    IF \A j \in 0..(n - 1) : char_ok(p, s[i + j]) THEN n
    ELSE CHOOSE j \in 0..(n - 1) :
             ~char_ok(p, s[i + j]) /\ \A k \in 0..(j - 1) : char_ok(p, s[i + k])

run_length(p, s, i, limit) ==
    first_bad(p, s, i, IF Len(s) - i + 1 < limit THEN Len(s) - i + 1 ELSE limit)

\* what a match of p can begin with: any character (any), one of a set of
\* characters (set), or nothing, the match being empty so far (empty)
RECURSIVE first_chars(_), first_of_seq(_), first_of_alt(_)
first_chars(p) ==
    LET t == p[1]
    IN  CASE t = "cls" -> [any |-> FALSE, empty |-> FALSE, set |-> p[2]]
          [] t \in {"not", "any"} -> [any |-> TRUE, empty |-> FALSE, set |-> {}]
          [] t = "lit" ->
                IF p[2] = <<>> THEN [any |-> FALSE, empty |-> TRUE, set |-> {}]
                ELSE [any |-> FALSE, empty |-> FALSE, set |-> p[2][1]]
          [] t = "seq" -> first_of_seq(p[2])
          [] t = "alt" -> first_of_alt(p[2])
          [] t \in {"rep", "lazy"} ->
                LET f == first_chars(p[2])
                IN  IF p[4] = 0 THEN [any |-> FALSE, empty |-> TRUE, set |-> {}]
                    ELSE [f EXCEPT !.empty = f.empty \/ p[3] = 0]
          [] t = "grp" -> first_chars(p[3])
          [] OTHER -> [any |-> FALSE, empty |-> TRUE, set |-> {}]

first_of_seq(ps) ==
    IF ps = <<>> THEN [any |-> FALSE, empty |-> TRUE, set |-> {}]
    ELSE LET f == first_chars(Head(ps))
         IN  IF ~f.empty THEN f
             ELSE LET g == first_of_seq(Tail(ps))
                  IN  [any |-> f.any \/ g.any, empty |-> g.empty, set |-> f.set \cup g.set]

first_of_alt(ps) ==
    IF ps = <<>> THEN [any |-> FALSE, empty |-> FALSE, set |-> {}]
    ELSE LET f == first_chars(Head(ps))
             g == first_of_alt(Tail(ps))
         IN  [any |-> f.any \/ g.any, empty |-> f.empty \/ g.empty, set |-> f.set \cup g.set]

\* the lengths from least to n of a greedy run at position i after which a
\* match that begins as f says can follow
fitting_lengths(f, s, i, least, n) ==
    SelectSeq([k \in 1..(n - least + 1) |-> least + k - 1],
              LAMBDA k : f.any \/ f.empty \/ (i + k <= Len(s) /\ s[i + k] \in f.set))

\* a greedy run of one character pattern
IsCharRep(p) == p[1] = "rep" /\ IsCharPattern(p[2])

\* match the patterns of todo one after the other from position i of s;
\* re_back gives back the characters of a greedy run, the longest run first:
\* lens are the lengths of the run, ascending, after which the rest of the
\* pattern can begin
RECURSIVE re_run(_, _, _, _), re_back(_, _, _, _, _, _, _), re_alt(_, _, _, _, _)
re_back(todo, s, i, lens, lo, hi, caps) ==
    IF lens = <<>> THEN NoMatch
    ELSE IF lo = hi THEN re_run(todo, s, i + lens[lo], caps)
    ELSE LET mid == (lo + hi + 1) \div 2
             longer == re_back(todo, s, i, lens, mid, hi, caps)
         IN  IF longer.ok THEN longer ELSE re_back(todo, s, i, lens, lo, mid - 1, caps)

re_back_all(todo, s, i, lens, caps) ==
    IF lens = <<>> THEN NoMatch
    ELSE IF Len(lens) = 1 THEN re_run(todo, s, i + lens[1], caps)
    ELSE re_back(todo, s, i, lens, 1, Len(lens), caps)

\* the alternatives ps, the first first, before the patterns of rest
re_alt(ps, rest, s, i, caps) ==
    IF ps = <<>> THEN NoMatch
    ELSE LET first == re_run(<<Head(ps)>> \o rest, s, i, caps)
         IN  IF first.ok THEN first ELSE re_alt(Tail(ps), rest, s, i, caps)

\* a greedy repetition p of a pattern that is more than one character
re_greedy(p, rest, s, i, caps) ==
    IF p[4] = 0 THEN re_run(rest, s, i, caps)
    ELSE LET more == re_run(<<p[2], <<"adv", i>>,
                              <<"rep", p[2], IF p[3] > 0 THEN p[3] - 1 ELSE 0,
                                p[4] - 1>>>> \o rest, s, i, caps)
         IN  IF more.ok THEN more
             ELSE IF p[3] = 0 THEN re_run(rest, s, i, caps) ELSE NoMatch

\* a lazy repetition p
re_lazy(p, rest, s, i, caps) ==
    LET stop == IF p[3] = 0 THEN re_run(rest, s, i, caps) ELSE NoMatch
    IN  IF stop.ok THEN stop
        ELSE IF p[4] = 0 THEN NoMatch
        ELSE re_run(<<p[2], <<"adv", i>>,
                      <<"lazy", p[2], IF p[3] > 0 THEN p[3] - 1 ELSE 0,
                        p[4] - 1>>>> \o rest, s, i, caps)

re_run(todo, s, i, caps) ==
    CASE todo = <<>> -> [ok |-> TRUE, end |-> i, caps |-> caps]
      [] IsCharPattern(Head(todo)) ->
            IF i <= Len(s) /\ char_ok(Head(todo), s[i])
            THEN re_run(Tail(todo), s, i + 1, caps) ELSE NoMatch
      [] Head(todo)[1] = "lit" ->
            IF /\ i + Len(Head(todo)[2]) - 1 <= Len(s)
               /\ \A k \in 1..Len(Head(todo)[2]) : s[i + k - 1] \in Head(todo)[2][k]
            THEN re_run(Tail(todo), s, i + Len(Head(todo)[2]), caps) ELSE NoMatch
      [] Head(todo)[1] = "seq" -> re_run(Head(todo)[2] \o Tail(todo), s, i, caps)
      [] Head(todo)[1] = "alt" -> re_alt(Head(todo)[2], Tail(todo), s, i, caps)
      [] IsCharRep(Head(todo)) ->
            re_back_all(Tail(todo), s, i,
                        fitting_lengths(first_of_seq(Tail(todo)), s, i, Head(todo)[3],
                                        run_length(Head(todo)[2], s, i, Head(todo)[4])),
                        caps)
      [] Head(todo)[1] = "rep" /\ ~IsCharPattern(Head(todo)[2]) ->
            re_greedy(Head(todo), Tail(todo), s, i, caps)
      [] Head(todo)[1] = "lazy" -> re_lazy(Head(todo), Tail(todo), s, i, caps)
      [] Head(todo)[1] = "adv" ->
            IF i > Head(todo)[2] THEN re_run(Tail(todo), s, i, caps) ELSE NoMatch
      [] Head(todo)[1] = "grp" /\ IsCharRep(Head(todo)[3]) ->
            re_back_all(<<<<"end", Head(todo)[2], i>>>> \o Tail(todo), s, i,
                        fitting_lengths(first_of_seq(Tail(todo)), s, i, Head(todo)[3][3],
                                        run_length(Head(todo)[3][2], s, i, Head(todo)[3][4])),
                        caps)
      [] Head(todo)[1] = "grp" ->
            re_run(<<Head(todo)[3], <<"end", Head(todo)[2], i>>>> \o Tail(todo), s, i, caps)
      [] Head(todo)[1] = "end" ->
            re_run(Tail(todo), s, i, Append(caps, <<Head(todo)[2], Head(todo)[3], i>>))
      [] Head(todo)[1] = "bol" -> IF i = 1 THEN re_run(Tail(todo), s, i, caps) ELSE NoMatch
      [] Head(todo)[1] = "eol" ->
            IF i = Len(s) + 1 \/ (i = Len(s) /\ s[i] = "\n")
            THEN re_run(Tail(todo), s, i, caps) ELSE NoMatch
      [] Head(todo)[1] = "wb" ->
            IF IsWordAt(s, i - 1) # IsWordAt(s, i)
            THEN re_run(Tail(todo), s, i, caps) ELSE NoMatch
      [] OTHER -> NoMatch

\* re.match(p, s): a match starting at the first character
re_match(p, s) == re_run(<<p>>, s, 1, <<>>)

\* a match with the position it starts at
at_start(m, start) == [ok |-> m.ok, start |-> start, end |-> m.end, caps |-> m.caps]

\* the first match of p in s that starts at one of the positions
\* starts[lo], ..., starts[hi]
RECURSIVE re_first(_, _, _, _, _)
re_first(p, s, starts, lo, hi) ==
    IF lo = hi THEN at_start(re_run(<<p>>, s, starts[lo], <<>>), starts[lo])
    ELSE LET mid == (lo + hi) \div 2
             left == re_first(p, s, starts, lo, mid)
         IN  IF left.ok THEN left ELSE re_first(p, s, starts, mid + 1, hi)

\* the first match of p in s that starts at position from or later, with its
\* start position; only the positions whose character can begin a match are
\* tried
first_at(p, s, from, starts) ==
    IF from > Len(s) + 1 \/ starts = <<>>
    THEN [ok |-> FALSE, start |-> from, end |-> 0, caps |-> <<>>]
    ELSE re_first(p, s, starts, 1, Len(starts))

can_start(f, s, from) ==
    SelectSeq([k \in 1..(Len(s) + 2 - from) |-> from + k - 1],
              LAMBDA i : f.any \/ f.empty \/ (i <= Len(s) /\ s[i] \in f.set))

re_search_from(p, s, from) == first_at(p, s, from, can_start(first_chars(p), s, from))

\* re.search(p, s)
re_search(p, s) == re_search_from(p, s, 1)

\* re.finditer(p, s): the successive non-overlapping matches, left to right
RECURSIVE re_finditer_from(_, _, _)
and_later(p, s, m) ==
    IF ~m.ok THEN <<>>
    ELSE <<m>> \o re_finditer_from(p, s, IF m.end > m.start THEN m.end ELSE m.end + 1)

re_finditer_from(p, s, from) == and_later(p, s, re_search_from(p, s, from))

re_finditer(p, s) == re_finditer_from(p, s, 1)

\* match.group(name): the text of the last capture of the group, <<>> (None or
\* the empty string) when the group took no part in the match
match_group(s, m, name) ==
    LET hits == {k \in 1..Len(m.caps) : m.caps[k][1] = name}
    IN  IF hits = {} THEN <<>>
        ELSE LET k == CHOOSE k \in hits : \A j \in hits : j <= k
             IN  SubSeq(s, m.caps[k][2], m.caps[k][3] - 1)

\* match.group(0)
group0(s, m) == SubSeq(s, m.start, m.end - 1)

\* re.sub(p, '', s): every match of p removed
RECURSIVE re_remove_from(_, _, _)
without(p, s, from, m) ==
    IF ~m.ok THEN SubSeq(s, from, Len(s))
    ELSE IF m.end > m.start
         THEN SubSeq(s, from, m.start - 1) \o re_remove_from(p, s, m.end)
         ELSE IF m.start > Len(s) THEN SubSeq(s, from, Len(s))
              ELSE SubSeq(s, from, m.start) \o re_remove_from(p, s, m.start + 1)

re_remove_from(p, s, from) == without(p, s, from, re_search_from(p, s, from))

re_remove(p, s) == re_remove_from(p, s, 1)

\* pattern builders
Cls(S) == <<"cls", S>>

Ch(c) == <<"cls", {c}>>

\* a literal string
Lit(str) == <<"lit", [k \in 1..Len(str) |-> {str[k]}]>>

\* a literal string under re.IGNORECASE
LitI(str) == <<"lit", [k \in 1..Len(str) |-> both_cases({str[k]})]>>

Cat(ps) == <<"seq", ps>>

Alt(ps) == <<"alt", ps>>

Rep(p, lo, hi) == <<"rep", p, lo, hi>>

Star(p) == <<"rep", p, 0, Inf>>

Plus(p) == <<"rep", p, 1, Inf>>

Opt(p) == <<"rep", p, 0, 1>>

Grp(name, p) == <<"grp", name, p>>

\* str.split(sep) for a one-character separator
RECURSIVE split_on(_, _)
split_on(s, sep) ==
    IF sep \notin Range(s) THEN <<s>>
    ELSE LET k == CHOOSE k \in 1..Len(s) : s[k] = sep /\ \A j \in 1..(k-1) : s[j] # sep
         IN  <<SubSeq(s, 1, k - 1)>> \o split_on(SubSeq(s, k + 1, Len(s)), sep)

\* str.split(): the maximal runs of non-space characters
RECURSIVE split_words(_)
split_words(s) ==
    LET words(t) ==
            IF t = <<>> THEN <<>>
            ELSE IF \A k \in 1..Len(t) : ~IsSpace(t[k]) THEN <<t>>
            ELSE LET k == CHOOSE k \in 1..Len(t) : IsSpace(t[k]) /\ \A j \in 1..(k-1) : ~IsSpace(t[j])
                 IN  <<SubSeq(t, 1, k - 1)>> \o split_words(SubSeq(t, k + 1, Len(t)))
    IN  words(strip(s))

\* sep.join(parts)
RECURSIVE join(_, _)
join(parts, sep) ==
    IF parts = <<>> THEN <<>>
    ELSE IF Len(parts) = 1 THEN parts[1]
    ELSE parts[1] \o sep \o join(Tail(parts), sep)

\* sub in s
contains(s, sub) ==
    \E k \in 1..(Len(s) - Len(sub) + 1) : \A j \in 1..Len(sub) : s[k + j - 1] = sub[j]

\* s.startswith(sub)
startswith(s, sub) == Len(sub) <= Len(s) /\ \A j \in 1..Len(sub) : s[j] = sub[j]

\* s.endswith(sub)
endswith(s, sub) == Len(sub) <= Len(s) /\ SubSeq(s, Len(s) - Len(sub) + 1, Len(s)) = sub

(***************************************************************************)
(* Deduplicator (ContactProcessor.deduplicate_contacts)                    *)
(***************************************************************************)
EmailPrefix == <<"e","m","a","i","l",":">>

FioPrefix == <<"f","i","o",":">>

\* '|'.join(sorted(parts)) for the at most two parts built by the code:
\* "email:..." sorts before "fio:..."
join_key_parts(email_part, fio_part) ==
    IF email_part # <<>> /\ fio_part # <<>> THEN email_part \o <<"|">> \o fio_part
    ELSE email_part \o fio_part

\* key_parts is non-empty: the contact has an email or a fio
has_key_parts(c) == c.email # <<>> \/ c.fio # <<>>

\* the key read as the email alone when there is one, else the fio
dedup_key_email_first(c) ==
    IF c.email # <<>> THEN EmailPrefix \o strip(lower(c.email))
    ELSE IF c.fio # <<>> THEN FioPrefix \o collapse_whitespace(strip(lower(c.fio)))
    ELSE <<>>

\* the key of the contact being examined (lines 827-841)
dedup_key(c) ==
    join_key_parts(
        IF c.email # <<>> THEN EmailPrefix \o strip(lower(c.email)) ELSE <<>>,
        IF c.fio # <<>> THEN FioPrefix \o collapse_whitespace(strip(lower(c.fio)))
        ELSE <<>>)

\* the key recomputed for a contact already kept (lines 852-858)
existing_key(c) ==
    join_key_parts(
        IF c.email # <<>> THEN EmailPrefix \o strip(lower(c.email)) ELSE <<>>,
        IF c.fio # <<>> THEN FioPrefix \o sub_letter_s(strip(lower(c.fio)))
        ELSE <<>>)

first_hit(hits) == IF hits = {} THEN 0 ELSE CHOOSE i \in hits : \A j \in hits : i <= j

\* existing_idx: the first kept contact whose recomputed key equals the key
\* of c, 0 for None (lines 850-860)
find_existing(unique, c) ==
    first_hit({i \in 1..Len(unique) : existing_key(unique[i]) = dedup_key(c)})

\* the loop of lines 825-871 from contact i on
RECURSIVE dedup_loop(_, _, _, _)
\* lines 862-869: the kept contact is replaced by a better one
replaced(cs, i, unique, seen_keys, existing_idx) ==
    IF existing_idx # 0 /\ cs[i].confidence_score > unique[existing_idx].confidence_score
    THEN dedup_loop(cs, i + 1, [unique EXCEPT ![existing_idx] = cs[i]], seen_keys)
    ELSE dedup_loop(cs, i + 1, unique, seen_keys)

dedup_loop(cs, i, unique, seen_keys) ==
    IF i > Len(cs) THEN unique
    ELSE IF ~has_key_parts(cs[i])
         THEN dedup_loop(cs, i + 1, Append(unique, cs[i]), seen_keys)
         ELSE IF dedup_key(cs[i]) \notin seen_keys
         THEN dedup_loop(cs, i + 1, Append(unique, cs[i]), seen_keys \cup {dedup_key(cs[i])})
         ELSE replaced(cs, i, unique, seen_keys, find_existing(unique, cs[i]))

deduplicate_contacts(cs) == IF cs = <<>> THEN cs ELSE dedup_loop(cs, 1, <<>>, {})

(***************************************************************************)
(* ContactProcessor: internal addresses and the signature locator          *)
(***************************************************************************)
\* ContactProcessor.critical_internal_markers
critical_internal_markers ==
    <<<<"t","e","l","e","g","r","a","m",":"," ","@","d","n","a","_","t","e","c","h","_","r","u","s">>,
        <<"@","d","n","a","_","t","e","c","h","_","r","u","s">>,
        <<"d","n","a","-","t","e","c","h","n","o","l","o","g","y",".","r","u">>,
        <<"~v","~a","~r","~sh","~a","~v","~s","~k","~o","~e"," ","~sh","~o","~s","~s","~e",","," ","~d","~o","~m"," ","1","2","5","~zh">>,
        <<"~k","~o","~r","~p","~u","~s"," ","5">>,
        <<"+","7"," ","(","4","9","5",")"," ","6","4","0","-","1","7","-","7","1">>,
        <<"~d","~o","~b","."," ","2","0","3","0">>,
        <<"~o","~t"," ","~g","~o","~g","~o","~l","~e","~v","~a">>,
        <<"~o","~t"," ","~f","~r","~o","~l","~o","~v","~a">>,
        <<"~s","~v","~e","~t","~l","~a","~n","~a"," ","~v","~o","~r","~o","~n","~o","~v","~a">>,
        <<"~m","~a","~r","~i","~ya"," ","~g","~o","~g","~o","~l","~e","~v","~a">>,
        <<"~m","~a","~r","~i","~ya"," ","~f","~r","~o","~l","~o","~v","~a">>,
        <<"~s","~u","~ch","~k","~o","~v","~a"," ","~n","~a","~t","~a","~l","~sf","~ya">>,
        <<"y","o","u","t","u","b","e"," ">>, <<" ","r","u","t","u","b","e">>,
        <<">","y","o","u","t","u","b","e">>>>

\* some element of a list of strings occurs in s
contains_any(s, subs) == \E k \in 1..Len(subs) : contains(s, subs[k])

\* s starts with some element of a list of strings
startswith_any(s, subs) == \E k \in 1..Len(subs) : startswith(s, subs[k])

\* ContactProcessor._is_internal_email for a string argument
is_internal_email(email) ==
    \/ email = <<>>
    \/ strip(lower(email)) \in blacklist_emails
    \/ \E domain \in internal_domains : endswith(strip(lower(email)), <<"@">> \o domain)

\* the filter of truly external addresses (lines 126-129): the elements that
\* are strings and not internal, in order
RECURSIVE truly_external(_)
truly_external(elems) ==
    IF elems = <<>> THEN <<>>
    ELSE IF Head(elems).type = "str" /\ ~is_internal_email(Head(elems).val)
         THEN <<Head(elems).val>> \o truly_external(Tail(elems))
         ELSE truly_external(Tail(elems))

\* the timestamp pattern of line 293
TimestampLine == Cat(<<<<"bol">>, Rep(Cls(Digits), 1, 2), Ch(":"), Rep(Cls(Digits), 2, 2),
    Lit(<<","," ">>), Rep(Cls(Digits), 1, 2), Ch(" "),
    Plus(Cls({"~a","~b","~v","~g","~d","~e","~zh","~z","~i","~j","~k","~l","~m","~n","~o","~p","~r","~s","~t","~u","~f","~h","~c","~ch","~sh","~sch","~hd","~y","~sf","~eh","~yu","~ya"})),
    Ch(" "), Rep(Cls(Digits), 4, 4)>>)

\* the header pattern of line 296
HeaderLine == Cat(<<<<"bol">>, Grp("g1", Alt(<<Lit(<<"~o","~t"," ","~k","~o","~g","~o">>),
    Lit(<<"~o","~t","~p","~r","~a","~v","~l","~e","~n","~o">>),
    Lit(<<"s","u","b","j","e","c","t">>), Lit(<<"f","r","o","m">>),
    Lit(<<"s","e","n","t">>)>>)), Ch(":")>>)

\* the filter without its test of the critical internal markers
unmarked_out(line_lower) ==
    \/ line_lower = <<>>
    \/ \E item \in company_blacklist : contains(line_lower, item)
    \/ re_match(TimestampLine, line_lower).ok
    \/ re_match(HeaderLine, line_lower).ok
    \/ startswith(line_lower, <<">",">",">">>)
    \/ startswith(line_lower, <<">",">">>)

filtered_out_unmarked(line) == unmarked_out(strip(lower(line)))

\* the tests of lines 273-300 on the lower-cased line
marked_out(line_lower) ==
    \/ line_lower = <<>>
    \/ contains_any(line_lower, critical_internal_markers)
    \/ \E item \in company_blacklist : contains(line_lower, item)
    \/ re_match(TimestampLine, line_lower).ok
    \/ re_match(HeaderLine, line_lower).ok
    \/ startswith(line_lower, <<">",">",">">>)
    \/ startswith(line_lower, <<">",">">>)

\* one line of _deep_filter_internal_markers (lines 266-303): the line is dropped
filtered_out(line) == marked_out(strip(lower(line)))

Newline == <<"\n">>

kept_by_filter(line) == ~filtered_out(line)

\* ContactProcessor._deep_filter_internal_markers
deep_filter_internal_markers(text) ==
    IF text = <<>> THEN <<>>
    ELSE join(SelectSeq(split_on(text, "\n"), kept_by_filter), Newline)

\* chain_headers of _deep_clean_email_body (lines 326-329)
chain_headers ==
    <<<<"~o","~t"," ","~k","~o","~g","~o",":">>, <<"~o","~t",":">>, <<"f","r","o","m",":">>,
        <<"s","e","n","t",":">>, <<"~o","~t","~p","~r","~a","~v","~l","~e","~n","~o",":">>,
        <<"s","u","b","j","e","c","t",":">>, <<"~t","~e","~m","~a",":">>, <<"c","c",":">>,
        <<"~k","~o","~p","~i","~ya",":">>, <<"b","c","c",":">>>>

\* tech_patterns of _deep_clean_email_body (lines 339-345)
tech_patterns ==
    << Cat(<<<<"bol">>, Rep(Cls(Digits), 1, 2), Ch(":"), Rep(Cls(Digits), 2, 2),
        Lit(<<","," ">>), Rep(Cls(Digits), 1, 2)>>),
       Cat(<<<<"bol">>, Rep(Cls(Digits), 4, 4), Ch("-"), Rep(Cls(Digits), 2, 2), Ch("-"),
           Rep(Cls(Digits), 2, 2)>>),
       Cat(<<<<"bol">>, Lit(<<"o","n"," ">>), Rep(Cls(Digits), 1, 2), Ch("/")>>),
       Cat(<<<<"bol">>, Lit(<<"~v"," ">>), Rep(Cls(Digits), 1, 2), Ch(":"), Rep(Cls(Digits), 2,
           2)>>),
       Cat(<<<<"bol">>, Rep(Cls(Digits), 2, 2), Ch("."), Rep(Cls(Digits), 2, 2), Ch("."),
           Rep(Cls(Digits), 4, 4), Star(<<"any">>), Lit(<<"~p","~i","~sh","~e","~t">>)>>) >>

\* the tests of lines 322-356 on the lower-cased line
cleaned_lower(line_lower) ==
    \/ line_lower = <<>>
    \/ startswith_any(line_lower, chain_headers)
    \/ \E k \in 1..Len(tech_patterns) : re_match(tech_patterns[k], line_lower).ok
    \/ contains_any(line_lower, critical_internal_markers)

\* one line of _deep_clean_email_body (lines 319-360): the line is dropped
cleaned_out(line) == cleaned_lower(strip(lower(line)))

kept_by_clean(line) == ~cleaned_out(line)

\* ContactProcessor._deep_clean_email_body
deep_clean_email_body(email_body) ==
    join(SelectSeq(split_on(email_body, "\n"), kept_by_clean), Newline)

\* signature_markers of _extract_clean_signatures (lines 212-221)
signature_markers ==
    <<<<"~s"," ","~u","~v","~a","~zh","~e","~n","~i","~e","~m">>,
        <<"b","e","s","t"," ","r","e","g","a","r","d","s">>,
        <<"~v","~s","~e","~g","~o"," ","~d","~o","~b","~r","~o","~g","~o">>,
        <<"~s"," ","~n","~a","~i","~l","~u","~ch","~sh","~i","~m","~i"," ","~p","~o","~zh","~e","~l","~a","~n","~i","~ya","~m","~i">>,
        <<"-","-","-">>, <<"_","_","_","_">>, <<"=","=","=","=">>, <<"-","-">>>>

has_marker(line_lower) ==
    contains_any(line_lower, signature_markers) /\ Len(line_lower) < 80

\* the line starts a signature block (line 231)
is_marker_line(line) == has_marker(strip(lower(line)))

Min(a, b) == IF a < b THEN a ELSE b

Max(a, b) == IF a < b THEN b ELSE a

\* the blocks found by the markers from line i on (lines 227-240)
RECURSIVE marker_blocks(_, _)
block_and_later(clean_block, lines, i) ==
    IF Len(strip(clean_block)) > 15
    THEN <<clean_block>> \o marker_blocks(lines, i + 1)
    ELSE marker_blocks(lines, i + 1)

marker_blocks(lines, i) ==
    IF i > Len(lines) THEN <<>>
    ELSE IF is_marker_line(lines[i])
         THEN block_and_later(
                  deep_filter_internal_markers(
                      join(SubSeq(lines, i, Min(Len(lines), i + 19)), Newline)),
                  lines, i)
         ELSE marker_blocks(lines, i + 1)

\* the block of the last lines, when it is long enough (lines 246-249)
last_lines_block(clean_block) ==
    IF Len(strip(clean_block)) > 20 THEN <<clean_block>> ELSE <<>>

\* lines 242-249 with every line of the body in place of the last 15
or_all_lines(found, lines) ==
    IF found # <<>> THEN found
    ELSE IF Len(lines) > 8
         THEN last_lines_block(deep_filter_internal_markers(join(lines, Newline)))
         ELSE <<>>

\* lines 242-249: without blocks of the markers, the last 15 lines
or_last_lines(found, lines) ==
    IF found # <<>> THEN found
    ELSE IF Len(lines) > 8
         THEN last_lines_block(
                  deep_filter_internal_markers(
                      join(SubSeq(lines, Max(1, Len(lines) - 14), Len(lines)), Newline)))
         ELSE <<>>

signatures_in(lines) == or_last_lines(marker_blocks(lines, 1), lines)

\* ContactProcessor._extract_clean_signatures
extract_clean_signatures(email_body) == signatures_in(split_on(email_body, "\n"))

(***************************************************************************)
(* SignatureParser                                                         *)
(***************************************************************************)
\* re.sub(p, repl, s) for a pattern that matches no empty string
RECURSIVE re_sub_from(_, _, _, _)
re_sub_from(p, repl, s, from) ==
    LET m == re_search_from(p, s, from)
    IN  IF ~m.ok \/ m.end = m.start THEN SubSeq(s, from, Len(s))
        ELSE SubSeq(s, from, m.start - 1) \o repl \o re_sub_from(p, repl, s, m.end)

re_sub(p, repl, s) == re_sub_from(p, repl, s, 1)

\* SignatureParser.signature_separators
signature_separators ==
    << Cat(<<LitI(<<"~S"," ","~u","~v","~a","~zh","~e","~n","~i","~e","~m">>), Opt(Ch(",")),
        Star(Cls(WhiteSpace))>>),
       Cat(<<LitI(<<"B","e","s","t"," ","r","e","g","a","r","d","s">>), Opt(Ch(",")),
           Star(Cls(WhiteSpace))>>),
       Cat(<<LitI(<<"~V","~s","~e","~g","~o"," ","~d","~o","~b","~r","~o","~g","~o">>),
           Opt(Ch(",")), Star(Cls(WhiteSpace))>>),
       Cat(<<LitI(<<"~S"," ","~n","~a","~i","~l","~u","~ch","~sh","~i","~m","~i"," ","~p","~o","~zh","~e","~l","~a","~n","~i","~ya","~m","~i">>),
           Opt(Ch(",")), Star(Cls(WhiteSpace))>>),
       Cat(<<Lit(<<"-","-">>), Plus(Ch("-"))>>),
       Cat(<<Lit(<<"_","_">>), Plus(Ch("_"))>>),
       Rep(Ch("~nd"), 2, Inf),
       Rep(Ch("="), 3, Inf),
       Cat(<<LitI(<<"~O","~t","~p","~r","~a","~v","~l","~e","~n","~o"," ","~s">>),
           Plus(Cls(WhiteSpace))>>),
       Cat(<<LitI(<<"S","e","n","t"," ","f","r","o","m">>), Plus(Cls(WhiteSpace))>>) >>

\* the markers of a contact line (line 115)
contact_line_markers == <<<<"~t","~e","~l">>, <<"e","m","a","i","l">>, <<"~m","~o","~b">>,
    <<"+","7">>, <<"8","-">>, <<"~i","~n","~n">>>>

is_contact_line(line) == contains_any(lower(line), contact_line_markers)

\* lines.index(line)
index_of(lines,
    line) == CHOOSE k \in 1..Len(lines) : lines[k] = line /\ \A j \in 1..(k-1) : lines[j] # line

\* lines 117-127: from two lines before the first contact line on, else the
\* last 8 lines
block_of_lines(email_body, lines, contact_lines) ==
    IF Len(lines) > 5
    THEN IF contact_lines # <<>>
         THEN join(SubSeq(lines, Max(0, index_of(lines, contact_lines[1]) - 1 - 2) + 1,
                          Len(lines)), Newline)
         ELSE join(SubSeq(lines, Max(1, Len(lines) - 7), Len(lines)), Newline)
    ELSE email_body

lines_block(email_body, lines) ==
    block_of_lines(email_body, lines, SelectSeq(lines, is_contact_line))

\* the search for contact lines of extract_signature_block (lines 110-127)
contact_lines_block(email_body) == lines_block(email_body, split_on(strip(email_body), "\n"))

\* the loop over the separators of extract_signature_block (lines 102-108)
RECURSIVE separator_block(_, _)
after_separator(email_body, k, match) ==
    IF match.ok /\ strip(SubSeq(email_body, match.end, Len(email_body))) # <<>>
    THEN strip(SubSeq(email_body, match.end, Len(email_body)))
    ELSE separator_block(email_body, k + 1)

separator_block(email_body, k) ==
    IF k > Len(signature_separators) THEN contact_lines_block(email_body)
    ELSE after_separator(email_body, k, re_search(signature_separators[k], email_body))

\* SignatureParser.extract_signature_block
extract_signature_block(email_body) == separator_block(email_body, 1)

\* SignatureParser.phone_patterns
phone_patterns ==
    << [type |-> "city_with_prefix", pattern |->
          Cat(<<Cls({"~T","~t"}), LitI(<<"~e","~l">>), Opt(Ch(".")), Star(Cls(WhiteSpace)),
              Opt(Grp("country", Alt(<<Lit(<<"+","7">>), Ch("8")>>))), Star(Cls(WhiteSpace)),
              Ch("("), Grp("code", Rep(Cls(Digits), 3, 5)), Ch(")"), Star(Cls(WhiteSpace)),
              Grp("num1", Rep(Cls(Digits), 2, 3)), Ch("-"), Grp("num2", Rep(Cls(Digits), 2,
              2)), Ch("-"), Grp("num3", Rep(Cls(Digits), 2, 2)),
              Opt(Cat(<<Star(Cls(WhiteSpace)), LitI(<<"(","~d","~o","~b">>), Opt(Ch(".")),
              Star(Cls(WhiteSpace)), Grp("ext", Plus(Cls(Digits))), Ch(")")>>))>>)],
       [type |-> "city", pattern |->
          Cat(<<Cls({"~T","~t"}), LitI(<<"~e","~l">>), Opt(Ch(".")), Star(Cls(WhiteSpace)),
              Ch("("), Grp("code", Rep(Cls(Digits), 2, 5)), Ch(")"), Star(Cls(WhiteSpace)),
              Grp("num1", Rep(Cls(Digits), 2, 3)), Opt(Ch("-")), Grp("num2", Rep(Cls(Digits),
              2, 3)), Opt(Ch("-")), Grp("num3", Rep(Cls(Digits), 2, 3)),
              Opt(Cat(<<Opt(Ch(",")), Star(Cls(WhiteSpace)), LitI(<<"~d","~o","~b">>),
              Opt(Ch(".")), Star(Cls(WhiteSpace)), Grp("ext", Plus(Cls(Digits)))>>))>>)],
       [type |-> "city", pattern |->
          Cat(<<Lit(<<"8","-">>), Grp("code", Rep(Cls(Digits), 3, 4)), Ch("-"), Grp("num1",
              Rep(Cls(Digits), 2, 3)), Ch("-"), Grp("num2", Rep(Cls(Digits), 2, 3)), Ch("-"),
              Grp("num3", Rep(Cls(Digits), 2, 3))>>)],
       [type |-> "mobile", pattern |->
          Cat(<<Grp("country", Alt(<<Lit(<<"+","7">>), Ch("8")>>)),
              Star(Cls(WhiteSpace \cup {"-"})), Ch("("), Grp("code", Rep(Cls(Digits), 3, 3)),
              Ch(")"), Star(Cls(WhiteSpace \cup {"-"})), Grp("num1", Rep(Cls(Digits), 3, 3)),
              Star(Cls(WhiteSpace \cup {"-"})), Grp("num2", Rep(Cls(Digits), 2, 2)),
              Star(Cls(WhiteSpace \cup {"-"})), Grp("num3", Rep(Cls(Digits), 2, 2)),
              Opt(Cat(<<Star(Cls(WhiteSpace \cup {"("})), LitI(<<"~d","~o","~b">>),
              Opt(Ch(".")), Star(Cls(WhiteSpace)), Grp("ext", Plus(Cls(Digits))),
              Opt(Ch(")"))>>))>>)],
       [type |-> "mobile", pattern |->
          Cat(<<Grp("country", Lit(<<"+","7">>)), Grp("code", Rep(Cls(Digits), 3, 3)),
              Grp("num1", Rep(Cls(Digits), 3, 3)), Grp("num2", Rep(Cls(Digits), 2, 2)),
              Grp("num3", Rep(Cls(Digits), 2, 2))>>)],
       [type |-> "city_complex", pattern |->
          Cat(<<Ch("8"), Star(Cls(WhiteSpace)), Ch("("), Grp("code1", Rep(Cls(Digits), 2, 3)),
              Ch("-"), Grp("code2", Rep(Cls(Digits), 1, 3)), Ch(")"), Star(Cls(WhiteSpace)),
              Grp("num1", Rep(Cls(Digits), 2, 3)), Ch("-"), Grp("num2", Rep(Cls(Digits), 2,
              3)), Ch("-"), Grp("num3", Rep(Cls(Digits), 2, 3))>>)],
       [type |-> "mobile", pattern |->
          Cat(<<Grp("country", Alt(<<Lit(<<"+","7">>), Ch("8")>>)), Plus(Cls(WhiteSpace)),
              Grp("code", Rep(Cls(Digits), 3, 3)), Plus(Cls(WhiteSpace)), Grp("num1",
              Rep(Cls(Digits), 3, 3)), Plus(Cls(WhiteSpace)), Grp("num2", Rep(Cls(Digits), 2,
              2)), Plus(Cls(WhiteSpace)), Grp("num3", Rep(Cls(Digits), 2, 2))>>)] >>

\* the suffix that marks an extension
ExtMark == <<"(","~d","~o","~b",".">>

\* SignatureParser._format_phone_match; <<>> stands for None
format_phone_match(s, match, phone_type) ==
    LET code == match_group(s, match, "code")
        code1 == match_group(s, match, "code1")
        code2 == match_group(s, match, "code2")
        num1 == match_group(s, match, "num1")
        num2 == match_group(s, match, "num2")
        num3 == match_group(s, match, "num3")
        ext == match_group(s, match, "ext")
        formatted(c) == <<"+","7"," ","(">> \o c \o <<")"," ">> \o num1 \o <<"-">> \o num2 \o <<"-">> \o num3
    IN  IF phone_type \in {"city_with_prefix", "mobile", "city"}
        THEN IF code # <<>> /\ num1 # <<>> /\ num2 # <<>> /\ num3 # <<>>
             THEN IF ext # <<>> THEN formatted(code) \o <<" ">> \o ExtMark \o <<" ">> \o ext \o <<")">>
                  ELSE formatted(code)
             ELSE <<>>
        ELSE IF phone_type = "city_complex"
        THEN IF code1 # <<>> /\ code2 # <<>> /\ num1 # <<>> /\ num2 # <<>> /\ num3 # <<>>
             THEN formatted(code1 \o code2)
             ELSE <<>>
        ELSE <<>>

\* the text before the first occurrence of sub, the whole text when there is none
before_first(s, sub) ==
    IF contains(s, sub)
    THEN LET k == CHOOSE k \in 1..(Len(s) - Len(sub) + 1) :
                      /\ SubSeq(s, k, k + Len(sub) - 1) = sub
                      /\ \A j \in 1..(k-1) : SubSeq(s, j, j + Len(sub) - 1) # sub
         IN  SubSeq(s, 1, k - 1)
    ELSE s

IsDigitOrPlus(c) == c \in Digits \cup {"+"}

\* SignatureParser._extract_base_number
extract_base_number(phone) == SelectSeq(before_first(phone, <<" ">> \o ExtMark), IsDigitOrPlus)

\* lines 143-155 of extract_phones without the replacement of lines 150-155:
\* the entry that came first stays
add_formatted_phone_first(phones, formatted_phone) ==
    IF formatted_phone = <<>> THEN phones
    ELSE IF \A k \in 1..Len(phones) :
                extract_base_number(phones[k]) # extract_base_number(formatted_phone)
         THEN Append(phones, formatted_phone)
    ELSE phones

\* one formatted match of extract_phones (lines 143-155) added to the list
add_formatted_phone(phones, formatted_phone) ==
    LET base_number == extract_base_number(formatted_phone)
        other_base(p) == extract_base_number(p) # base_number
    IN  IF formatted_phone = <<>> THEN phones
        ELSE IF \A k \in 1..Len(phones) : other_base(phones[k])
             THEN Append(phones, formatted_phone)
        ELSE IF contains(formatted_phone, ExtMark)
             THEN Append(SelectSeq(phones, other_base), formatted_phone)
        ELSE phones

\* the matches of one pattern, in order (lines 140-158)
RECURSIVE add_matches(_, _, _, _)
add_matches(phones, text, matches, phone_type) ==
    IF matches = <<>> THEN phones
    ELSE add_matches(
             add_formatted_phone(phones, format_phone_match(text, Head(matches), phone_type)),
             text, Tail(matches), phone_type)

\* the loop over the patterns from pattern k on (lines 135-158)
RECURSIVE extract_phones_from(_, _, _)
extract_phones_from(phones, text, k) ==
    IF k > Len(phone_patterns) THEN phones
    ELSE extract_phones_from(
             add_matches(phones, text, re_finditer(phone_patterns[k].pattern, text),
                         phone_patterns[k].type),
             text, k + 1)

\* SignatureParser.extract_phones
extract_phones(text) == extract_phones_from(<<>>, text, 1)

\* SignatureParser.email_pattern
email_pattern == Cat(<<Plus(Cls(WordChars \cup {"-","."})), Ch("@"),
    Plus(Cls(WordChars \cup {"-","."})), Ch("."),
    Rep(Cls(Range(UpperLatin) \cup Range(LowerLatin)), 2, Inf)>>)

\* SignatureParser._is_valid_email
is_valid_email(email) ==
    LET parts == split_on(email, "@")
    IN  /\ email # <<>>
        /\ "@" \in Range(email)
        /\ Len(parts) = 2
        /\ Len(parts[1]) > 0 /\ Len(parts[1]) <= 64
        /\ Len(parts[2]) > 0 /\ Len(parts[2]) <= 255
        /\ "." \in Range(parts[2])
        /\ ~startswith(parts[2], <<".">>)
        /\ ~endswith(parts[2], <<".">>)

\* the texts of a list of matches
match_texts(s, matches) == [k \in 1..Len(matches) |-> group0(s, matches[k])]

lower_strip(s) == strip(lower(s))

normal_emails(potential_emails) ==
    [k \in 1..Len(potential_emails) |-> lower_strip(potential_emails[k])]

\* SignatureParser.extract_emails
extract_emails(text) ==
    SelectSeq(normal_emails(match_texts(text, re_finditer(email_pattern, text))),
              is_valid_email)

first_or_none(emails) == IF emails # <<>> THEN emails[1] ELSE <<>>

parsed_block(signature_block) ==
    [phones |-> extract_phones(signature_block),
     email |-> first_or_none(extract_emails(signature_block))]

\* SignatureParser.parse_signature: the phones and the email of ContactInfo
parse_signature(email_body) == parsed_block(extract_signature_block(email_body))

(***************************************************************************)
(* RussianNERExtractor.  The Natasha tagger is not part of the repository: *)
(* its answer for a text is an input, a record [per, org] of at most one   *)
(* person span and one organization span (<<>> for none), each reported    *)
(* when it occurs in the text.                                             *)
(***************************************************************************)
\* str.capitalize()
capitalize(s) == [k \in 1..Len(s) |-> IF k = 1 THEN upper_char(s[k]) ELSE lower_char(s[k])]

\* the elements of a list without repetitions, in the order of first occurrence
unique(seq) ==
    LET first(k) == \A j \in 1..(k-1) : seq[j] # seq[k]
        kept == SelectSeq([k \in 1..Len(seq) |-> k], first)
    IN  [k \in 1..Len(kept) |-> seq[kept[k]]]

reverse(seq) == [k \in 1..Len(seq) |-> seq[Len(seq) + 1 - k]]

\* list(set(seq)): the distinct elements in the iteration order of the set,
\* which depends on the hash seed of the run; rev chooses between the two
\* orders of a set of two
list_of_set(seq, rev) == IF rev THEN reverse(unique(seq)) ELSE unique(seq)

\* sorted(seq, key=len, reverse=True): a stable sort, longest first
RECURSIVE sorted_by_len_desc(_)
sorted_by_len_desc(seq) ==
    IF seq = <<>> THEN <<>>
    ELSE LET longest == CHOOSE k \in 1..Len(seq) :
                            /\ \A j \in 1..Len(seq) : Len(seq[j]) <= Len(seq[k])
                            /\ \A j \in 1..(k-1) : Len(seq[j]) < Len(seq[k])
         IN  <<seq[longest]>> \o
             sorted_by_len_desc(SubSeq(seq, 1, longest - 1) \o SubSeq(seq, longest + 1, Len(seq)))

\* RussianNERExtractor.position_keywords
position_keywords ==
    <<<<"~d","~i","~r","~e","~k","~t","~o","~r">>,
        <<"~d","~i","~r","~e","~k","~t","~r","~i","~s","~a">>,
        <<"~m","~e","~n","~e","~d","~zh","~e","~r">>,
        <<"~s","~p","~e","~c","~i","~a","~l","~i","~s","~t">>, <<"~v","~r","~a","~ch">>,
        <<"~i","~n","~zh","~e","~n","~e","~r">>,
        <<"~r","~u","~k","~o","~v","~o","~d","~i","~t","~e","~l","~sf">>,
        <<"~n","~a","~ch","~a","~l","~sf","~n","~i","~k">>,
        <<"~n","~a","~ch","~a","~l","~sf","~n","~i","~c","~a">>,
        <<"~z","~a","~m","~e","~s","~t","~i","~t","~e","~l","~sf">>,
        <<"~z","~a","~v","~e","~d","~u","~yu","~sch","~i","~j">>,
        <<"~k","~o","~o","~r","~d","~i","~n","~a","~t","~o","~r">>>>

\* RussianNERExtractor.position_patterns, as used with re.IGNORECASE
position_patterns ==
    << Cat(<<LitI(<<"~D","~i","~r","~e","~k","~t","~o","~r">>),
        Star(Cat(<<Plus(Cls(WhiteSpace)), Cls(Range(UpperCyr) \cup Range(LowerCyr)),
        Plus(Cls(Range(UpperCyr) \cup Range(LowerCyr)))>>)),
        Star(Alt(<<Cat(<<Plus(Cls(WhiteSpace)), LitI(<<"~c","~e","~n","~t","~r","~a">>)>>),
        Cat(<<Plus(Cls(WhiteSpace)), LitI(<<"~o","~t","~d","~e","~l","~a">>)>>),
        Cat(<<Plus(Cls(WhiteSpace)),
        LitI(<<"~d","~e","~p","~a","~r","~t","~a","~m","~e","~n","~t","~a">>)>>),
        Cat(<<Plus(Cls(WhiteSpace)),
        LitI(<<"~u","~p","~r","~a","~v","~l","~e","~n","~i","~ya">>)>>),
        Cat(<<Plus(Cls(WhiteSpace)), LitI(<<"~s","~l","~u","~zh","~b","~y">>)>>),
        Cat(<<Plus(Cls(WhiteSpace)), LitI(<<"~f","~i","~l","~i","~a","~l","~a">>)>>)>>)),
        Opt(Cat(<<Plus(Cls(WhiteSpace)),
        Plus(Cls(Range(UpperCyr) \cup Range(LowerCyr) \cup WhiteSpace))>>))>>),
       Cat(<<LitI(<<"~M","~e","~n","~e","~d","~zh","~e","~r">>),
           Star(Cat(<<Plus(Cls(WhiteSpace)),
           Plus(Cls(Range(UpperCyr) \cup Range(LowerCyr)))>>)),
           Opt(Cat(<<Plus(Cls(WhiteSpace)), LitI(<<"~p","~o">>), Plus(Cls(WhiteSpace)),
           Plus(Cls(Range(UpperCyr) \cup Range(LowerCyr) \cup WhiteSpace))>>))>>),
       Cat(<<LitI(<<"~S","~p","~e","~c","~i","~a","~l","~i","~s","~t">>),
           Star(Cat(<<Plus(Cls(WhiteSpace)),
           Plus(Cls(Range(UpperCyr) \cup Range(LowerCyr)))>>)),
           Opt(Cat(<<Plus(Cls(WhiteSpace)), LitI(<<"~p","~o">>), Plus(Cls(WhiteSpace)),
           Plus(Cls(Range(UpperCyr) \cup Range(LowerCyr) \cup WhiteSpace))>>))>>),
       Cat(<<LitI(<<"~V","~r","~a","~ch">>), Opt(Cat(<<Plus(Cls(WhiteSpace)),
           LitI(<<"~p","~o">>), Plus(Cls(WhiteSpace)),
           Plus(Cls(Range(UpperCyr) \cup Range(LowerCyr) \cup WhiteSpace))>>)),
           Opt(Cat(<<Plus(Cls(WhiteSpace)),
           LitI(<<"~o","~t","~d","~e","~l","~e","~n","~i","~ya">>), Plus(Cls(WhiteSpace)),
           Plus(Cls(Range(UpperCyr) \cup Range(LowerCyr) \cup WhiteSpace))>>)),
           Opt(Cat(<<Plus(Cls(WhiteSpace)),
           LitI(<<"~m","~e","~t","~r","~o","~l","~o","~g","~i","~i">>)>>)),
           Opt(Cat(<<Plus(Cls(WhiteSpace)), Cls(both_cases({"~i"}))>>)),
           Opt(Cat(<<Plus(Cls(WhiteSpace)),
           LitI(<<"~s","~t","~a","~n","~d","~a","~r","~t","~i","~z","~a","~c","~i","~i">>)>>))>>),
       Cat(<<LitI(<<"~I","~n","~zh","~e","~n","~e","~r">>), Opt(Cat(<<Plus(Cls(WhiteSpace)),
           Plus(Cls(Range(UpperCyr) \cup Range(LowerCyr) \cup WhiteSpace))>>))>>),
       Cat(<<LitI(<<"~R","~u","~k","~o","~v","~o","~d","~i","~t","~e","~l","~sf">>),
           Opt(Cat(<<Plus(Cls(WhiteSpace)),
           Plus(Cls(Range(UpperCyr) \cup Range(LowerCyr) \cup WhiteSpace))>>))>>),
       Cat(<<LitI(<<"~N","~a","~ch","~a","~l","~sf","~n","~i","~k">>),
           Opt(Cat(<<Plus(Cls(WhiteSpace)),
           Plus(Cls(Range(UpperCyr) \cup Range(LowerCyr) \cup WhiteSpace))>>))>>),
       Cat(<<LitI(<<"~Z","~a","~v","~e","~d","~u","~yu","~sch","~i","~j">>),
           Opt(Cat(<<Plus(Cls(WhiteSpace)),
           Plus(Cls(Range(UpperCyr) \cup Range(LowerCyr) \cup WhiteSpace))>>))>>),
       Cat(<<LitI(<<"~Z","~a","~m","~e","~s","~t","~i","~t","~e","~l","~sf">>),
           Opt(Cat(<<Plus(Cls(WhiteSpace)),
           Plus(Cls(Range(UpperCyr) \cup Range(LowerCyr) \cup WhiteSpace))>>))>>) >>

\* suspicious_patterns of _clean_fio_text (lines 102-106)
suspicious_patterns ==
    << Cat(<<<<"wb">>, Grp("g1", Alt(<<LitI(<<"~t","~e","~l">>),
        LitI(<<"~t","~e","~l","~e","~f","~o","~n">>), LitI(<<"~m","~o","~b">>),
        LitI(<<"~m","~o","~b","~i","~l","~sf","~n","~y","~j">>), LitI(<<"~f","~a","~k","~s">>),
        LitI(<<"e","m","a","i","l">>), LitI(<<"e","-","m","a","i","l">>)>>)), <<"wb">>>>),
       Cat(<<<<"wb">>, Grp("g1", Alt(<<LitI(<<"~d","~i","~r","~e","~k","~t","~o","~r">>),
           LitI(<<"~m","~e","~n","~e","~d","~zh","~e","~r">>),
           LitI(<<"~s","~p","~e","~c","~i","~a","~l","~i","~s","~t">>),
           LitI(<<"~v","~r","~a","~ch">>)>>)), <<"wb">>>>),
       Cat(<<<<"wb">>, Grp("g1", Alt(<<LitI(<<"~o","~o","~o">>), LitI(<<"~z","~a","~o">>),
           LitI(<<"~a","~o">>), LitI(<<"~i","~p">>)>>)), <<"wb">>>>) >>

\* re.sub(p, '', s) for each pattern of a list in turn
RECURSIVE remove_all(_, _)
remove_all(patterns, s) ==
    IF patterns = <<>> THEN s ELSE remove_all(Tail(patterns), re_remove(Head(patterns), s))

\* r'^[^\w]+|[^\w]+$'
NonWordEnds == Alt(<<Cat(<<<<"bol">>, Plus(<<"not", WordChars>>)>>), Cat(<<Plus(<<"not",
    WordChars>>), <<"eol">>>>)>>)

\* the pattern of line 122: one capitalized Cyrillic word
CapitalizedCyr == Cat(<<<<"bol">>, Cls(Range(UpperCyr)), Plus(Cls(Range(LowerCyr))), <<"eol">>>>)

is_capitalized_cyr(word) == re_match(CapitalizedCyr, word).ok

\* the checks of lines 116-124 on the cleaned text and its words
checked_words(cleaned, words) ==
    IF Len(words) < 2 \/ Len(words) > 4 THEN <<>>
    ELSE IF \E k \in 1..Len(words) : ~is_capitalized_cyr(words[k]) THEN <<>>
    ELSE cleaned

checked_fio(cleaned) == checked_words(cleaned, split_words(cleaned))

\* RussianNERExtractor._clean_fio_text
clean_fio_text(fio_text) ==
    IF fio_text = <<>> THEN <<>>
    ELSE checked_fio(strip(collapse_whitespace(
             re_remove(NonWordEnds,
                       remove_all(suspicious_patterns,
                                  collapse_whitespace(sub_runs(fio_text, {"\r", "\n", "\t"},
                                                               1)))))))

in_stop_words(text_lower, stop_words) ==
    \/ text_lower \in stop_words
    \/ \E stop_word \in stop_words : Len(stop_word) > 3 /\ contains(text_lower, stop_word)

\* _is_stop_word_person and _is_stop_word_org, for the given set of stop words
is_stop_word(text, stop_words) == in_stop_words(strip(lower(text)), stop_words)

is_stop_word_person(text) == is_stop_word(text, stop_words_person)

is_stop_word_org(text) == is_stop_word(text, stop_words_org)

\* RussianNERExtractor._is_position_not_organization
is_position_not_organization(text) ==
    \/ startswith_any(strip(lower(text)), position_keywords)
    \/ \E k \in 1..Len(position_patterns) : re_search(position_patterns[k], text).ok

\* the regional patterns of _extend_org_with_region for an organization
regional_patterns(org) ==
    << Cat(<<LitI(org), Cat(<<Plus(Cls(WhiteSpace)), Cls(both_cases({"~v"})),
        Plus(Cls(WhiteSpace)), Cls(Range(UpperCyr) \cup Range(LowerCyr)),
        Plus(Cls(Range(UpperCyr) \cup Range(LowerCyr) \cup {"-"})),
        Opt(Cat(<<Plus(Cls(WhiteSpace)),
        Plus(Cls(Range(UpperCyr) \cup Range(LowerCyr) \cup {"-"}))>>)), Plus(Cls(WhiteSpace)),
        LitI(<<"~k","~r","~a","~e">>)>>)>>),
       Cat(<<LitI(org), Cat(<<Plus(Cls(WhiteSpace)), Cls(both_cases({"~v"})),
           Plus(Cls(WhiteSpace)), Cls(Range(UpperCyr) \cup Range(LowerCyr)),
           Plus(Cls(Range(UpperCyr) \cup Range(LowerCyr) \cup {"-"})),
           Opt(Cat(<<Plus(Cls(WhiteSpace)),
           Plus(Cls(Range(UpperCyr) \cup Range(LowerCyr) \cup {"-"}))>>)),
           Plus(Cls(WhiteSpace)), LitI(<<"~o","~b","~l","~a","~s","~t","~i">>)>>)>>),
       Cat(<<LitI(org), Cat(<<Plus(Cls(WhiteSpace)), Cls(both_cases({"~v"})),
           Plus(Cls(WhiteSpace)), Cls(Range(UpperCyr) \cup Range(LowerCyr)),
           Plus(Cls(Range(UpperCyr) \cup Range(LowerCyr) \cup {"-"})),
           Opt(Cat(<<Plus(Cls(WhiteSpace)),
           Plus(Cls(Range(UpperCyr) \cup Range(LowerCyr) \cup {"-"}))>>)),
           Plus(Cls(WhiteSpace)), LitI(<<"~o","~b","~l",".">>)>>)>>),
       Cat(<<LitI(org), Cat(<<Plus(Cls(WhiteSpace)), Cls(both_cases({"~v"})),
           Plus(Cls(WhiteSpace)), LitI(<<"~R","~e","~s","~p","~u","~b","~l","~i","~k","~e">>),
           Plus(Cls(WhiteSpace)), Cls(Range(UpperCyr) \cup Range(LowerCyr)),
           Plus(Cls(Range(UpperCyr) \cup Range(LowerCyr) \cup {"-"}))>>)>>),
       Cat(<<LitI(org), Cat(<<Plus(Cls(WhiteSpace)), Cls(both_cases({"~v"})),
           Plus(Cls(WhiteSpace)), Cls(Range(UpperCyr) \cup Range(LowerCyr)),
           Plus(Cls(Range(UpperCyr) \cup Range(LowerCyr) \cup {"-"})), Plus(Cls(WhiteSpace)),
           LitI(<<"~r","~e","~s","~p","~u","~b","~l","~i","~k","~e">>)>>)>>) >>

\* the first pattern of a list that is found in s, from pattern k on; 0 if none
RECURSIVE first_found(_, _, _)
first_found(patterns, s, k) ==
    IF k > Len(patterns) THEN 0
    ELSE IF re_search(patterns[k], s).ok THEN k
    ELSE first_found(patterns, s, k + 1)

\* the text of the regional pattern k found in the line, the line itself
\* if none is (lines 190-195)
region_match(patterns, line, k) ==
    IF k > 0 THEN strip(group0(line, re_search(patterns[k], line))) ELSE strip(line)

region_in(patterns, line) == region_match(patterns, line, first_found(patterns, line, 1))

\* RussianNERExtractor._extend_org_with_region
extend_org_with_region(org, line) == region_in(regional_patterns(org), line)

\* separate_city_patterns of clean_organization_text (lines 201-204)
separate_city_patterns ==
    << Cat(<<Plus(Cls(WhiteSpace)), Cls({"G","g","~G","~g"}), Opt(Ch(".")),
        Plus(Cls(WhiteSpace)), Cls(Range(UpperCyr)), Plus(Cls(Range(LowerCyr) \cup {"-"})),
        Opt(Cat(<<Star(Cls(WhiteSpace)), Ch(","), Star(<<"any">>)>>)), <<"eol">>>>),
       Cat(<<Plus(Cls(WhiteSpace)), Lit(<<"~g","~o","~r","~o","~d">>), Plus(Cls(WhiteSpace)),
           Cls(Range(UpperCyr)), Plus(Cls(Range(LowerCyr) \cup {"-"})),
           Opt(Cat(<<Star(Cls(WhiteSpace)), Ch(","), Star(<<"any">>)>>)), <<"eol">>>>) >>

\* the pattern of line 213, with re.IGNORECASE
PhoneWords == Cat(<<Plus(Cls(WhiteSpace)), Grp("g1", Alt(<<Cat(<<LitI(<<"~T","~e","~l">>),
    Opt(Ch("."))>>), LitI(<<"~F","~a","~k","~s">>), LitI(<<"E","m","a","i","l">>),
    LitI(<<"E","-","m","a","i","l">>), Cat(<<LitI(<<"~M","~o","~b">>), Opt(Ch("."))>>)>>)),
    Grp("g2", Alt(<<Cls(WhiteSpace), <<"eol">>>>))>>)

\* r'\d{1,2}-\d{4}-\d{2}-\d{2}'
DashedNumber == Cat(<<Rep(Cls(Digits), 1, 2), Ch("-"), Rep(Cls(Digits), 4, 4), Ch("-"),
    Rep(Cls(Digits), 2, 2), Ch("-"), Rep(Cls(Digits), 2, 2)>>)

\* the text before the city that pattern k finds (lines 205-208)
cut_city(cleaned, k) ==
    IF k > 0
    THEN strip(SubSeq(cleaned, 1, re_search(separate_city_patterns[k], cleaned).start - 1))
    ELSE cleaned

\* lines 213-214
without_phone_words(cut) == re_remove(DashedNumber, re_remove(PhoneWords, cut))

checked_org(cleaned, bare) ==
    IF is_position_not_organization(cleaned) THEN <<>>
    ELSE IF is_stop_word_org(bare) THEN <<>>
    ELSE strip(bare)

cleaned_org(cleaned) ==
    checked_org(cleaned,
                without_phone_words(cut_city(cleaned,
                                             first_found(separate_city_patterns, cleaned, 1))))

\* RussianNERExtractor.clean_organization_text
clean_organization_text(text) == cleaned_org(strip(collapse_whitespace(text)))

\* fio_patterns of merge_person_fragments (lines 230-233)
fio_patterns ==
    << Grp("g1", Cat(<<Cls(Range(UpperCyr)), Plus(Cls(Range(LowerCyr))), Plus(Cls(WhiteSpace)),
        Cls(Range(UpperCyr)), Plus(Cls(Range(LowerCyr))), Plus(Cls(WhiteSpace)),
        Cls(Range(UpperCyr)), Plus(Cls(Range(LowerCyr)))>>)),
       Grp("g1", Cat(<<Cls(Range(UpperCyr)), Plus(Cls(Range(LowerCyr))), Plus(Cls(WhiteSpace)),
           Cls(Range(UpperCyr)), Ch("."), Star(Cls(WhiteSpace)), Cls(Range(UpperCyr)),
           Ch(".")>>)) >>

is_name(n) == n # <<>> /\ ~is_stop_word_person(n)

\* the names kept from a list of candidate texts (lines 238-240, 246-248)
clean_names(candidates) ==
    SelectSeq([k \in 1..Len(candidates) |-> clean_fio_text(candidates[k])], is_name)

stripped_all(found) == [k \in 1..Len(found) |-> strip(found[k])]

\* re.findall(p, text) for a pattern that is one group, stripped
found_stripped(p, text) == stripped_all(match_texts(text, re_finditer(p, text)))

\* lines 243-248: the fragments of the tagger are used when the patterns
\* gave no name
names_or_fragments(by_pattern, person_fragments) ==
    IF by_pattern = <<>> /\ Len(person_fragments) >= 1
    THEN clean_names(person_fragments)
    ELSE by_pattern

\* RussianNERExtractor.merge_person_fragments
merge_person_fragments(person_fragments, text, rev) ==
    list_of_set(names_or_fragments(clean_names(found_stripped(fio_patterns[1], text)
                                               \o found_stripped(fio_patterns[2], text)),
                                   person_fragments),
                rev)

\* address_markers of extract_full_addresses (line 262)
address_markers == <<<<"~g",".">>, <<"~u","~l",".">>, <<"~d","~o","~m">>, <<"~d",".">>,
    <<"~u","~l","~i","~c","~a">>, <<"~p","~r","~o","~s","~p","~e","~k","~t">>,
    <<"~p","~r",".">>, <<"~k","~o","~r","~p","~u","~s">>, <<"~k","~o","~r",".">>,
    <<"~o","~f","~i","~s">>, <<"~o","~f",".">>, <<"~k","~v","~a","~r","~t","~i","~r","~a">>,
    <<"~k","~v",".">>>>

\* r'^\W+|\W+$'
NonWordEnds2 == Alt(<<Cat(<<<<"bol">>, Plus(<<"not", WordChars>>)>>), Cat(<<Plus(<<"not",
    WordChars>>), <<"eol">>>>)>>)

\* the pattern of line 271: a city written alone on a line after its prefix
CityLine == Cat(<<<<"bol">>, Cls({"G","g","~G","~g"}), Opt(Ch(".")), Star(Cls(WhiteSpace)),
    Grp("g1", Cat(<<Cls(Range(UpperCyr)), Plus(Cls(Range(LowerCyr) \cup {"-"}))>>)),
    <<"eol">>>>)

\* the pattern of line 273
CityInLine == Cat(<<Cls({"G","g","~G","~g"}), Opt(Ch(".")), Star(Cls(WhiteSpace)), Grp("g1",
    Cat(<<Cls(Range(UpperCyr)), Plus(Cls(Range(LowerCyr) \cup {"-"}))>>))>>)

\* the pattern of line 282: one capitalized word
CityWord == Cat(<<<<"bol">>, Cls(Range(UpperCyr)), Plus(Cls(Range(LowerCyr) \cup {"-"})),
    <<"eol">>>>)

\* a line with an address marker, when what is left of it is long enough
\* (lines 264-267)
marked_line(cleaned_line) == IF Len(cleaned_line) > 8 THEN <<cleaned_line>> ELSE <<>>

\* the city of lines 270-275
city_in(line, city_match) ==
    IF re_match(CityLine, line).ok /\ city_match.ok
    THEN << <<"~g","."," ">> \o match_group(line, city_match, "g1") >>
    ELSE <<>>

stripped_line_addresses(line) ==
    IF contains_any(lower(line), address_markers)
    THEN marked_line(re_remove(NonWordEnds2, line))
    ELSE city_in(line, re_search(CityInLine, line))

\* the addresses one line contributes in the first loop (lines 258-275)
line_addresses(raw_line) == stripped_line_addresses(strip(raw_line))

\* the concatenation of a list of lists
RECURSIVE flatten(_)
flatten(lists) == IF lists = <<>> THEN <<>> ELSE Head(lists) \o flatten(Tail(lists))

\* the words that tell a neighbouring line is a job title (line 291)
title_words == <<<<"~v","~r","~a","~ch">>, <<"~d","~i","~r","~e","~k","~t","~o","~r">>,
    <<"~m","~e","~n","~e","~d","~zh","~e","~r">>,
    <<"~o","~t","~d","~e","~l","~e","~n","~i","~ya">>,
    <<"~m","~e","~t","~r","~o","~l","~o","~g","~i","~i">>>>

\* after stripping, the line is a capitalized word of more than 3 letters
is_city_candidate(raw_line) ==
    re_match(CityWord, strip(raw_line)).ok /\ Len(strip(raw_line)) > 3

near_title(lines, k) ==
    k >= 1 /\ k <= Len(lines) /\ contains_any(lower(strip(lines[k])), title_words)

city_at(lines, raw_line, line_idx) ==
    IF is_city_candidate(raw_line) /\ ~near_title(lines, line_idx - 1)
                                   /\ ~near_title(lines, line_idx + 1)
    THEN <<strip(raw_line)>> ELSE <<>>

\* the city the line contributes in the second loop (lines 280-297);
\* lines.index(line) is taken with the stripped line
city_of_line(lines, raw_line) == city_at(lines, raw_line, index_of(lines, strip(raw_line)))

\* the addresses of the first loop over the lines
line_addresses_of(lines) == flatten([k \in 1..Len(lines) |-> line_addresses(lines[k])])

index_raises(lines) ==
    /\ line_addresses_of(lines) = <<>>
    /\ \E k \in 1..Len(lines) :
          /\ is_city_candidate(lines[k])
          /\ \A j \in 1..Len(lines) : lines[j] # strip(lines[k])

\* lines.index(line) raises ValueError: the stripped line is a city
\* candidate and no line of the text equals it
extract_full_addresses_raises(text) == index_raises(split_on(text, "\n"))

\* the cities of the second loop, when the first found nothing (line 278)
or_cities(found, lines) ==
    IF found # <<>> THEN found
    ELSE flatten([k \in 1..Len(lines) |-> city_of_line(lines, lines[k])])

addresses_of(lines) == or_cities(line_addresses_of(lines), lines)

\* RussianNERExtractor.extract_full_addresses, when it does not raise
extract_full_addresses(text, rev) ==
    sorted_by_len_desc(list_of_set(addresses_of(split_on(text, "\n")), rev))

\* the pattern of line 314: a line that is a name
FioLine == Cat(<<<<"bol">>, Cls(Range(UpperCyr)), Plus(Cls(Range(LowerCyr))),
    Plus(Cls(WhiteSpace)), Cls(Range(UpperCyr)), Plus(Cls(Range(LowerCyr))),
    Star(Cls(WhiteSpace)), Star(Cls(Range(UpperCyr))), Star(Cls(Range(LowerCyr))),
    Star(Cls(WhiteSpace)), <<"eol">>>>)

\* the pattern of line 318, with re.IGNORECASE
OrgWords == Cat(<<<<"wb">>, Grp("g1", Alt(<<LitI(<<"~O","~O","~O">>), LitI(<<"~A","~O">>),
    LitI(<<"~Z","~A","~O">>), LitI(<<"~I","~P">>), LitI(<<"~F","~G","~B","~O","~U">>),
    LitI(<<"~F","~B","~U","~Z">>)>>)), <<"wb">>>>)

\* the pattern of line 322, with re.IGNORECASE
ContactWords == Cat(<<<<"wb">>, Grp("g1", Alt(<<LitI(<<"~g",".">>), LitI(<<"~u","~l",".">>),
    Cat(<<LitI(<<"~t","~e","~l">>), Opt(Ch("."))>>), LitI(<<"e","m","a","i","l">>),
    LitI(<<"~f","~a","~k","~s">>), Lit(<<"+","7">>), Cat(<<Rep(Cls(Digits), 1, 2), Ch("-"),
    Rep(Cls(Digits), 4, 4)>>)>>)), <<"wb">>>>)

\* the pattern of line 353, with re.IGNORECASE
PhoneWordsTail == Cat(<<<<"wb">>, Grp("g1", Alt(<<Cat(<<LitI(<<"~T","~e","~l">>),
    Opt(Ch("."))>>), LitI(<<"~F","~a","~k","~s">>), LitI(<<"E","m","a","i","l">>),
    LitI(<<"E","-","m","a","i","l">>)>>)), <<"wb">>, Star(<<"any">>)>>)

\* the position with its first word capitalized (lines 359-366)
capitalized_position(position, words) ==
    IF Len(words) > 1
    THEN capitalize(words[1]) \o <<" ">> \o join(Tail(words), <<" ">>)
    ELSE IF Len(words) = 1 THEN capitalize(words[1])
    ELSE strip(position)

checked_position(position) ==
    IF ~contains_any(lower(position), position_keywords) THEN <<>>
    ELSE capitalized_position(position, split_words(position))

cleaned_position(p0) ==
    IF p0 = <<>> THEN <<>>
    ELSE checked_position(strip(collapse_whitespace(
             re_remove(NonWordEnds, re_remove(PhoneWordsTail, re_remove(DashedNumber, p0))))))

\* RussianNERExtractor.clean_position_text
clean_position_text(position_text) == cleaned_position(strip(collapse_whitespace(position_text)))

position_of_stripped(line) ==
    IF line = <<>> \/ re_match(FioLine, line).ok THEN <<>>
    ELSE IF re_search(OrgWords, line).ok THEN <<>>
    ELSE IF re_search(ContactWords, line).ok THEN <<>>
    ELSE IF startswith_any(lower(line), position_keywords) /\ Len(line) < 150
         THEN clean_position_text(line)
    ELSE <<>>

\* the position one line contributes (lines 310-339); <<>> for none
position_of_line(raw_line) == position_of_stripped(strip(raw_line))

NonEmpty(s) == s # <<>>

positions_in(lines) ==
    unique(SelectSeq([k \in 1..Len(lines) |-> position_of_line(lines[k])], NonEmpty))

\* RussianNERExtractor.extract_clean_positions
extract_clean_positions(text) == positions_in(split_on(text, "\n"))

\* the spans the tagger reports in a text for one span of its answer
spans_in(text, span) == IF span # <<>> /\ contains(text, span) THEN <<span>> ELSE <<>>

first_line_with(lines, org_str, hits) ==
    IF hits = {} THEN org_str
    ELSE lines[CHOOSE k \in hits : \A j \in hits : k <= j]

line_in(lines, org_str) ==
    first_line_with(lines, org_str, {k \in 1..Len(lines) : contains(lines[k], org_str)})

\* the first line of the text that contains org_str, org_str itself if none
line_with(text, org_str) == line_in(split_on(text, "\n"), org_str)

\* the span without a job title in front of it (lines 407-411)
without_title(org_text, words) ==
    IF words # <<>> /\ \E k \in 1..Len(position_keywords) :
                           lower(words[1]) = position_keywords[k]
    THEN join(Tail(words), <<" ">>)
    ELSE strip(org_text)

extended_org(org_str, text) ==
    IF org_str = <<>> THEN <<>>
    ELSE clean_organization_text(extend_org_with_region(org_str, line_with(text, org_str)))

\* the organization kept for one ORG span (lines 404-421); <<>> for none
organization_of(org_text, text) ==
    extended_org(without_title(org_text, split_words(strip(org_text))), text)

organizations_of(raw_orgs, text) ==
    unique(SelectSeq([k \in 1..Len(raw_orgs) |-> organization_of(raw_orgs[k], text)],
                     NonEmpty))

\* RussianNERExtractor.extract_entities, when it does not raise
extract_entities(text, tagger, rev) ==
    [persons |-> merge_person_fragments(spans_in(text, tagger.per), text, rev),
     organizations |-> organizations_of(spans_in(text, tagger.org), text),
     locations |-> extract_full_addresses(text, rev),
     positions |-> extract_clean_positions(text)]

\* extract_entities raises: the only statement of it that can is the
\* lines.index of extract_full_addresses
extract_entities_raises(text) == extract_full_addresses_raises(text)

(***************************************************************************)
(* ContactProcessor: one signature block                                   *)
(* A Contact is a record of the fields fio, position, company, email,      *)
(* phones, address, confidence_score and issues of FullContactInfo.        *)
(* Scores are counted in tenths: 3 stands for 0.3.  round(score, 2) of a   *)
(* sum of the weights 0.3, 0.1, 0.2, 0.2, 0.1, 0.1 is that many tenths.    *)
(***************************************************************************)
\* additional_patterns of _extract_phones_improved (lines 480-485)
additional_patterns ==
    << Cat(<<Lit(<<"+","7","-">>), Grp("g1", Rep(Cls(Digits), 3, 3)), Ch("-"), Grp("g2",
        Rep(Cls(Digits), 3, 3)), Ch("-"), Grp("g3", Rep(Cls(Digits), 2, 2)), Ch("-"), Grp("g4",
        Rep(Cls(Digits), 2, 2))>>),
       Cat(<<Ch("8"), Plus(Cls(WhiteSpace)), Ch("("), Grp("g1", Rep(Cls(Digits), 3, 4)),
           Ch(")"), Plus(Cls(WhiteSpace)), Grp("g2", Rep(Cls(Digits), 3, 3)), Ch("-"),
           Grp("g3", Rep(Cls(Digits), 3, 3))>>),
       Cat(<<Lit(<<"+","7">>), Plus(Cls(WhiteSpace)), Ch("("), Grp("g1", Rep(Cls(Digits), 3,
           3)), Ch(")"), Plus(Cls(WhiteSpace)), Grp("g2", Rep(Cls(Digits), 3, 3)),
           Plus(Cls(WhiteSpace)), Grp("g3", Rep(Cls(Digits), 2, 2)), Plus(Cls(WhiteSpace)),
           Grp("g4", Rep(Cls(Digits), 2, 2)), Plus(Cls(WhiteSpace)), Ch("("), Grp("g5",
           Rep(Cls(Digits), 2, 2)), Ch(")")>>),
       Cat(<<Ch("8"), Plus(Cls(WhiteSpace)), Grp("g1", Rep(Cls(Digits), 3, 3)), Ch("-"),
           Grp("g2", Rep(Cls(Digits), 3, 3)), Ch("-"), Grp("g3", Rep(Cls(Digits), 2, 2)),
           Ch("-"), Grp("g4", Rep(Cls(Digits), 2, 2)), Opt(Ch(",")), Star(Cls(WhiteSpace)),
           Lit(<<"~d","~o","~b",".">>), Grp("g5", Plus(Cls(Digits)))>>) >>

normal_phone(phone, normal) ==
    IF phone = <<>> THEN <<>>
    ELSE IF Len(normal) < 7 THEN <<>>
    ELSE normal

\* ContactProcessor._normalize_phone
normalize_phone(phone) == normal_phone(phone, collapse_whitespace(strip(phone)))

\* the phone built from the groups of one match of additional pattern k
\* (lines 491-500): the tuple has 4, 3 or 5 elements
format_additional(k, s, m) ==
    LET g(n) == match_group(s, m, <<"g1", "g2", "g3", "g4", "g5">>[n])
    IN  IF k = 1
        THEN <<"+","7","-">> \o g(1) \o <<"-">> \o g(2) \o <<"-">> \o g(3) \o <<"-">> \o g(4)
        ELSE IF k = 2
        THEN <<"8"," ","(">> \o g(1) \o <<")"," ">> \o g(2) \o <<"-">> \o g(3)
        ELSE <<"+","7"," ","(">> \o g(1) \o <<")"," ">> \o g(2) \o <<" ">> \o g(3) \o <<" ">> \o g(4)
             \o <<" ","(">> \o g(5) \o <<")">>

\* append the elements of a list that are not empty and not yet in the list
RECURSIVE append_new(_, _)
append_new(phones, more) ==
    IF more = <<>> THEN phones
    ELSE IF Head(more) # <<>> /\ \A k \in 1..Len(phones) : phones[k] # Head(more)
         THEN append_new(Append(phones, Head(more)), Tail(more))
         ELSE append_new(phones, Tail(more))

normalized_matches(k, text, matches) ==
    [n \in 1..Len(matches) |-> normalize_phone(format_additional(k, text, matches[n]))]

\* the normalized phones of the matches of additional pattern k
additional_phones(k, text) ==
    normalized_matches(k, text, re_finditer(additional_patterns[k], text))

\* ContactProcessor._extract_phones_improved.  The patterns of
\* data/phone_patterns.txt (lines 463-477) are none: the file is not part of
\* the sources, and a missing file gives the empty list.
extract_phones_improved(text) ==
    append_new(<<>>, flatten([k \in 1..Len(additional_patterns) |->
                                 additional_phones(k, text)]))

\* the words that do not start a name in _clean_position (line 544)
unit_words == <<<<"~o","~t","~d","~e","~l","~a">>, <<"~o","~t","~d","~e","~l","~o","~m">>,
    <<"~g","~r","~u","~p","~p","~y">>,
    <<"~d","~e","~p","~a","~r","~t","~a","~m","~e","~n","~t","~a">>>>

\* word i begins a person's name (lines 541-547)
name_starts(words, i) ==
    /\ i > 1
    /\ is_capitalized_cyr(words[i])
    /\ Len(words[i]) > 3
    /\ \A k \in 1..Len(unit_words) : lower(words[i]) # unit_words[k]
    /\ i + 1 <= Len(words)
    /\ is_capitalized_cyr(words[i + 1])

before_stop(words, stops) ==
    IF stops = {} THEN words
    ELSE SubSeq(words, 1, (CHOOSE i \in stops : \A j \in stops : i <= j) - 1)

cleaned_words(words) == before_stop(words, {i \in 1..Len(words) : name_starts(words, i)})

\* ContactProcessor._clean_position
clean_position(position) ==
    IF position = <<>> THEN <<>>
    ELSE strip(join(cleaned_words(split_words(position)), <<" ">>))

\* prefixes_to_remove of _clean_company (lines 559-563)
prefixes_to_remove == <<<<"~z","~a","~k","~a","~z","~ch","~i","~k",":"," ">>,
    <<"~k","~o","~n","~e","~ch","~n","~y","~j"," ","~p","~o","~l","~sf","~z","~o","~v","~a","~t","~e","~l","~sf",":"," ">>,
    <<"~k","~l","~i","~e","~n","~t",":"," ">>>>

\* patterns_to_cut of _clean_company (lines 572-577), with re.IGNORECASE
patterns_to_cut ==
    << Cat(<<Ch(","), Star(Cls(WhiteSpace)), LitI(<<"~i","~n","~n">>), Plus(Cls(WhiteSpace)),
        Plus(Cls(Digits)), Star(<<"any">>)>>),
       Cat(<<Ch(","), Star(Cls(WhiteSpace)), LitI(<<"~k","~p","~p">>), Plus(Cls(WhiteSpace)),
           Plus(Cls(Digits)), Star(<<"any">>)>>),
       Cat(<<Ch(","), Star(Cls(WhiteSpace)), Rep(Cls(Digits), 6, 6), Ch(","), Star(<<"any">>)>>),
       Cat(<<Star(Cls(WhiteSpace)), Rep(Cls(Digits), 6, 6), Ch(","), Star(<<"any">>)>>) >>

\* the company without the first prefix it starts with (lines 565-569)
without_prefix(company, hits) ==
    IF hits = {} THEN company
    ELSE SubSeq(company,
                Len(prefixes_to_remove[CHOOSE k \in hits : \A j \in hits : k <= j]) + 1,
                Len(company))

bare_company(company, company_lower) ==
    without_prefix(company, {k \in 1..Len(prefixes_to_remove) :
                                startswith(company_lower, prefixes_to_remove[k])})

\* ContactProcessor._clean_company
clean_company(company) ==
    IF company = <<>> THEN <<>>
    ELSE strip(remove_all(patterns_to_cut, bare_company(company, lower(company))))

\* invalid_patterns of _is_valid_person_name (lines 600-608)
invalid_patterns == <<<<"~c","~e","~n","~t","~r"," ","~l","~a","~b","~o","~r","~a","~t","~o","~r","~n","~o","~j">>,
    <<"t","e","l","e","g","r","a","m",":">>, <<"s","u","b","j","e","c","t",":">>,
    <<"~o","~t"," ","~k","~o","~g","~o">>, <<"~k","~o","~m","~p","~a","~n","~i","~ya">>,
    <<"y","o","u","t","u","b","e">>, <<"r","u","t","u","b","e">>>>

\* the pattern of line 621: one capitalized word
CapitalizedWord == Cat(<<<<"bol">>, Cls(Range(UpperCyr) \cup Range(UpperLatin)),
    Plus(Cls(Range(LowerCyr) \cup Range(LowerLatin))), <<"eol">>>>)

\* ContactProcessor._is_valid_person_name
is_valid_person_name(name) ==
    LET words == split_words(name)
    IN  /\ name # <<>> /\ Len(strip(name)) >= 3
        /\ lower(name) \notin stop_words_person
        /\ ~contains_any(lower(name), invalid_patterns)
        /\ Len(words) >= 2 /\ Len(words) <= 4
        /\ \A k \in 1..Len(words) : re_match(CapitalizedWord, words[k]).ok

\* invalid_indicators of _is_valid_position (lines 635-643)
invalid_indicators ==
    <<<<"s","u","b","j","e","c","t",":">>, <<"~o","~t"," ","~k","~o","~g","~o">>,
        <<"t","e","l","e","g","r","a","m",":">>,
        <<"~o","~t","~p","~r","~a","~v","~l","~e","~n","~o">>, <<"y","o","u","t","u","b","e">>,
        <<"r","u","t","u","b","e">>,
        <<"~p","~r","~i"," ","~z","~a","~p","~r","~o","~s","~e"," ","~n","~a"," ","~s","~ch","~e","~t">>>>

\* r'^[\d\>\<\@\#\$\%]'
TechnicalStart == Cat(<<<<"bol">>, Cls(Digits \cup {"#","$","%","<",">","@"})>>)

\* ContactProcessor._is_valid_position
is_valid_position(position) ==
    /\ position # <<>> /\ Len(strip(position)) >= 3
    /\ ~contains_any(lower(position), invalid_indicators)
    /\ ~re_match(TechnicalStart, lower(position)).ok

\* ContactProcessor._is_valid_company
is_valid_company(company) ==
    /\ company # <<>> /\ Len(strip(company)) >= 3
    /\ \A blacklist_item \in company_blacklist : ~contains(lower(company), blacklist_item)

\* junk_indicators of _is_valid_address (lines 679-692)
junk_indicators ==
    <<<<">",">",">">>, <<"~o","~t"," ","~k","~o","~g","~o",":">>,
        <<"s","u","b","j","e","c","t",":">>,
        <<"~o","~t","~p","~r","~a","~v","~l","~e","~n","~o",":">>,
        <<"~o","~p","~l","~a","~t","~u"," ","~no">>,
        <<"~s","~o","~d","~e","~r","~zh","~a","~t"," ","~k","~o","~n","~f","~i","~d","~e","~n","~c","~i","~a","~l","~sf","~n","~u","~yu">>,
        <<"~n","~a","~s","~t","~o","~ya","~sch","~i","~m"," ","~u","~v","~e","~d","~o","~m","~l","~ya","~e","~m">>,
        <<"~v"," ","~m","~a","~r","~t","~e"," ","~v","~y","~s","~t","~a","~v","~l","~ya","~l","~i">>,
        <<"~p","~r","~o","~sh","~u"," ","~v","~a","~s">>,
        <<"~z","~a","~k","~u","~p","~k","~a"," ","~p","~l","~a","~n","~i","~r","~u","~e","~t","~s","~ya">>,
        <<"~k","~p"," ","~ya"," ","~t","~o","~l","~sf","~k","~o"," ","~ch","~t","~o">>,
        <<"1","9",":","0","0",","," ","1","8"," ","~i","~yu","~n","~ya"," ","2","0","2","5">>>>

\* ContactProcessor._is_valid_address
is_valid_address(address) ==
    /\ address # <<>> /\ Len(strip(address)) >= 5
    /\ ~contains_any(lower(address), junk_indicators)

\* repr() of a string
py_repr(s) ==
    LET quote == IF "'" \in Range(s) /\ "\"" \notin Range(s) THEN "\"" ELSE "'"
        escaped(c) == IF c = "\\" THEN <<"\\", "\\">>
                      ELSE IF c = quote THEN <<"\\", c>>
                      ELSE IF c = "\n" THEN <<"\\", "n">>
                      ELSE IF c = "\t" THEN <<"\\", "t">>
                      ELSE IF c = "\r" THEN <<"\\", "r">>
                      ELSE <<c>>
    IN  <<quote>> \o flatten([k \in 1..Len(s) |-> escaped(s[k])]) \o <<quote>>

\* str() of a list of strings
str_of_list(list) ==
    <<"[">> \o join([k \in 1..Len(list) |-> py_repr(list[k])], <<",", " ">>) \o <<"]">>

\* the phones of the parser that are not yet in the list (lines 416-422)
RECURSIVE extend_missing(_, _)
extend_missing(phones, more) ==
    IF more = <<>> THEN phones
    ELSE IF \A k \in 1..Len(phones) : phones[k] # Head(more)
         THEN extend_missing(Append(phones, Head(more)), Tail(more))
         ELSE extend_missing(phones, Tail(more))

\* the fields of the Contact (lines 388-411): the text of the list an
\* extractor returned, kept when it is valid
fio_field(persons) ==
    IF persons # <<>> /\ is_valid_person_name(str_of_list(persons))
    THEN str_of_list(persons) ELSE <<>>

position_field(positions, position) ==
    IF positions # <<>> /\ position # <<>> /\ is_valid_position(position)
    THEN position ELSE <<>>

company_field(organizations, company) ==
    IF organizations # <<>> /\ company # <<>> /\ is_valid_company(company)
    THEN company ELSE <<>>

address_field(locations) ==
    IF locations # <<>> /\ is_valid_address(str_of_list(locations))
    THEN str_of_list(locations) ELSE <<>>

\* the Contact assembled by _process_signature_block before the gate
\* (lines 385-439) from the answers of the two extractors
assemble_contact(signature_block, external_email, ner_result, signature_data) ==
    [fio |-> fio_field(ner_result.persons),
     position |-> position_field(ner_result.positions,
                                 clean_position(str_of_list(ner_result.positions))),
     company |-> company_field(ner_result.organizations,
                               clean_company(str_of_list(ner_result.organizations))),
     address |-> address_field(ner_result.locations),
     email |-> IF signature_data.email # <<>> /\ ~is_internal_email(signature_data.email)
               THEN signature_data.email ELSE external_email,
     phones |-> extend_missing(extract_phones_improved(signature_block), signature_data.phones),
     confidence_score |-> 0,
     issues |-> <<>>]

\* the gate with "and" between its two halves replaced by "or"
is_high_quality_contact_either(contact) ==
    /\ ~(contact.email # <<>> /\ is_internal_email(contact.email))
    /\ \/ strip(contact.fio) # <<>> \/ strip(contact.company) # <<>>
       \/ (strip(contact.email) # <<>> /\ "@" \in Range(contact.email)) \/ contact.phones # <<>>

\* ContactProcessor._is_high_quality_contact
is_high_quality_contact(contact) ==
    LET has_name == contact.fio # <<>> /\ strip(contact.fio) # <<>>
        has_company == contact.company # <<>> /\ strip(contact.company) # <<>>
        has_email == contact.email # <<>> /\ strip(contact.email) # <<>> /\ "@" \in Range(contact.email)
        has_phone == contact.phones # <<>>
        has_identity == has_name \/ has_company
        has_contact_method == has_email \/ has_phone
    IN  IF contact.email # <<>> /\ is_internal_email(contact.email) THEN FALSE
        ELSE has_identity /\ has_contact_method

\* the messages of _analyze_contact_quality
IssueFio == <<"~F","~I","~O"," ","~n","~e","~p","~o","~l","~n","~o","~e"," ","~i","~l","~i"," ","~o","~t","~s","~u","~t","~s","~t","~v","~u","~e","~t">>

IssuePosition == <<"~D","~o","~l","~zh","~n","~o","~s","~t","~sf"," ","~n","~e"," ","~o","~p","~r","~e","~d","~e","~l","~e","~n","~a">>

IssueCompany == <<"~K","~o","~m","~p","~a","~n","~i","~ya"," ","~n","~e"," ","~n","~a","~j","~d","~e","~n","~a">>

IssuePhones == <<"~T","~e","~l","~e","~f","~o","~n","~y"," ","~n","~e"," ","~n","~a","~j","~d","~e","~n","~y">>

IssueAddress == <<"~A","~d","~r","~e","~s"," ","~n","~e"," ","~n","~a","~j","~d","~e","~n">>

\* the scoring with the weight of the company taken as 0.1
analyze_contact_quality_flat(contact) ==
    [score |-> (IF contact.fio # <<>> /\ Len(split_words(contact.fio)) >= 2 THEN 3 ELSE 0)
               + (IF contact.position # <<>> THEN 1 ELSE 0)
               + (IF contact.company # <<>> THEN 1 ELSE 0)
               + (IF contact.phones # <<>> THEN 2 ELSE 0)
               + (IF contact.email # <<>> /\ "@" \in Range(contact.email) THEN 1 ELSE 0)
               + (IF contact.address # <<>> THEN 1 ELSE 0),
     issues |-> <<>>]

\* ContactProcessor._analyze_contact_quality
analyze_contact_quality(contact) ==
    LET has_fio == contact.fio # <<>> /\ Len(split_words(contact.fio)) >= 2
        has_email == contact.email # <<>> /\ "@" \in Range(contact.email)
    IN  [score |-> (IF has_fio THEN 3 ELSE 0)
                   + (IF contact.position # <<>> THEN 1 ELSE 0)
                   + (IF contact.company # <<>> THEN 2 ELSE 0)
                   + (IF contact.phones # <<>> THEN 2 ELSE 0)
                   + (IF has_email THEN 1 ELSE 0)
                   + (IF contact.address # <<>> THEN 1 ELSE 0),
         issues |-> (IF has_fio THEN <<>> ELSE <<IssueFio>>)
                    \o (IF contact.position # <<>> THEN <<>> ELSE <<IssuePosition>>)
                    \o (IF contact.company # <<>> THEN <<>> ELSE <<IssueCompany>>)
                    \o (IF contact.phones # <<>> THEN <<>> ELSE <<IssuePhones>>)
                    \o (IF contact.address # <<>> THEN <<>> ELSE <<IssueAddress>>)]

\* the contact that passes the gate (lines 431-439)
gated(contact, persons) ==
    [raised |-> FALSE,
     value |-> IF is_high_quality_contact(contact) THEN <<contact>> ELSE <<>>,
     persons |-> persons,
     assembled |-> <<contact>>]

assembled_from(signature_block, external_email, ner_result) ==
    gated(assemble_contact(signature_block, external_email, ner_result,
                           parse_signature(signature_block)),
          ner_result.persons)

\* the try block of _process_signature_block (lines 369-444): it raises when
\* an extractor does, else gives the contact that passes the gate; a list of
\* no element stands for None.  The record also keeps what the block went
\* through: the persons the entity extractor returned and the contact
\* assembled before the gate.
process_signature_block_try(signature_block, external_email, tag) ==
    IF extract_entities_raises(signature_block)
    THEN [raised |-> TRUE, value |-> <<>>, persons |-> <<>>, assembled |-> <<>>]
    ELSE assembled_from(signature_block, external_email,
                        extract_entities(signature_block, tag, tag.rev))

\* the try block without its except clause: the exception goes to the caller
process_signature_block_unguarded(signature_block, external_email, tag) ==
    process_signature_block_try(signature_block, external_email, tag)

\* the except clause of _process_signature_block (lines 442-444)
guarded(r) == [r EXCEPT !.raised = FALSE, !.value = IF r.raised THEN <<>> ELSE r.value]

\* ContactProcessor._process_signature_block: an exception of the try block
\* is logged and None is returned
process_signature_block(signature_block, external_email, tag) ==
    guarded(process_signature_block_try(signature_block, external_email, tag))

\* a call as it is recorded: the block, the address passed, whether the
\* extractors raised on the block (failed), whether the call raised, and
\* what it gave
recorded(text, external_email, r) ==
    [block |-> text, external_email |-> external_email,
     failed |-> r.assembled = <<>>,
     raised |-> r.raised, result |-> r.value,
     persons |-> r.persons, assembled |-> r.assembled]

\* one call of _process_signature_block by process_email_signature
block_call(text, external_email, tag) ==
    recorded(text, external_email, process_signature_block(text, external_email, tag))

\* the loop over the signature blocks (lines 140-149): the calls made, up to
\* the first one that raises
RECURSIVE blocks_loop(_, _, _)
and_rest(call, signature_blocks, external_email, tag) ==
    IF call.raised THEN <<call>>
    ELSE <<call>> \o blocks_loop(Tail(signature_blocks), external_email, tag)

blocks_loop(signature_blocks, external_email, tag) ==
    IF signature_blocks = <<>> THEN <<>>
    ELSE IF Len(strip(Head(signature_blocks))) > 15
         THEN and_rest(block_call(Head(signature_blocks), external_email, tag),
                       signature_blocks, external_email, tag)
         ELSE blocks_loop(Tail(signature_blocks), external_email, tag)

\* the contacts of a list of calls, in order
results_of(calls) == flatten([k \in 1..Len(calls) |-> calls[k].result])

\* the call on the cleaned body, when it is long enough (lines 155-159)
on_body(clean_body, external_email, tag) ==
    IF Len(strip(clean_body)) > 30
    THEN <<block_call(clean_body, external_email, tag)>>
    ELSE <<>>

\* the fallback on the whole body (lines 152-162)
fallback_calls(email_body, external_email, tag) ==
    on_body(deep_clean_email_body(email_body), external_email, tag)

\* a contact with its score and issues
scored(contact, quality) ==
    [contact EXCEPT !.confidence_score = quality.score, !.issues = quality.issues]

\* the scores and issues set on the contacts (lines 165-166)
with_quality(found) ==
    [k \in 1..Len(found) |-> scored(found[k], analyze_contact_quality(found[k]))]

nothing == [raised |-> FALSE, value |-> <<>>, calls |-> <<>>]

\* the return of the try block after the calls (lines 164-177)
result_of(calls) ==
    IF \E k \in 1..Len(calls) : calls[k].raised
    THEN [raised |-> TRUE, value |-> <<>>, calls |-> calls]
    ELSE [raised |-> FALSE, value |-> with_quality(results_of(calls)), calls |-> calls]

\* the calls of the loop, and those of the fallback when the loop gave no
\* contact (line 152)
with_fallback(first_calls, email_body, external_email, tag) ==
    IF \E k \in 1..Len(first_calls) : first_calls[k].raised THEN first_calls
    ELSE IF results_of(first_calls) = <<>>
    THEN first_calls \o fallback_calls(email_body, external_email, tag)
    ELSE first_calls

\* lines 131-162, for the addresses that passed the filter of line 125
for_emails(email_body, truly_external_emails, tag) ==
    IF truly_external_emails = <<>> THEN nothing
    ELSE result_of(with_fallback(blocks_loop(extract_clean_signatures(email_body),
                                             truly_external_emails[1], tag),
                                 email_body, truly_external_emails[1], tag))

\* the try block of process_email_signature (lines 116-177).  An argument is
\* a record [type, val] of the Python type of the value and the value;
\* tag is the answer of the environment: the spans of the tagger and the
\* iteration order of the sets (rev).
process_email_signature_try(body, emails, tag) ==
    IF body.type # "str" THEN nothing
    ELSE IF emails.type # "list" THEN nothing
    ELSE for_emails(body.val, truly_external(emails.val), tag)

\* the except clause of process_email_signature (lines 179-182)
logged(r) ==
    IF r.raised
    THEN [raised |-> FALSE, value |-> <<>>, calls |-> r.calls, failed_extraction |-> TRUE]
    ELSE [raised |-> FALSE, value |-> r.value, calls |-> r.calls, failed_extraction |-> FALSE]

\* ContactProcessor.process_email_signature: an exception of the try block
\* is logged and counted, and the empty list is returned
process_email_signature(body, emails, tag) ==
    logged(process_email_signature_try(body, emails, tag))

\* PhoneExtractorPerfect.mobile_codes: the area codes of mobile numbers
mobile_codes ==
    ({<<"9", a, b>> : a \in {"1", "2", "6", "8"}, b \in Digits} \ {<<"9","1","1">>})
    \cup {<<"9", "3", b>> : b \in (Digits \ {"5"})}
    \cup {<<"9", "5", b>> : b \in Digits}
    \cup {<<"9","9","9">>}

(***************************************************************************)
(* IMAPClient.  A message is a record of what the mail server and the MIME *)
(* decoder give for it: whether the fetch succeeded, the subject, the      *)
(* addresses of the From, To, Cc and Bcc headers, and the decoded text.    *)
(***************************************************************************)
after_index(s, hits) == SubSeq(s, (CHOOSE k \in hits : \A j \in hits : j <= k) + 1, Len(s))

\* s.rsplit(sep, 1)[-1] for a one-character separator that occurs in s
after_last(s, sep) == after_index(s, {k \in 1..Len(s) : s[k] = sep})

InternalName == <<"d","n","a","-","t","e","c","h","n","o","l","o","g","y",".","r","u">>

\* the tests of lines 134-150 on the lower-cased address
internal_lower(email_lower) ==
    \/ email_lower \in blacklist_emails
    \/ "@" \in Range(email_lower) /\ after_last(email_lower, "@") \in internal_domains
    \/ contains(email_lower, InternalName)

\* IMAPClient._is_internal_email
imap_is_internal_email(email_addr) ==
    email_addr = <<>> \/ internal_lower(strip(lower(email_addr)))

\* IMAPClient._extract_email_body for a message of one text/plain part
extract_email_body(msg) == strip(msg.payload)

\* the markers of _analyze_email_type (lines 172, 176, 180-189)
forward_markers == <<<<"f","w","d",":">>, <<"f","w",":">>,
    <<"~p","~e","~r","~e","~s","~l",":">>,
    <<"~p","~e","~r","~e","~s","~l","~a","~n","~o",":">>>>

reply_markers == <<<<"r","e",":">>, <<"~o","~t","~v","~e","~t",":">>, <<"~o","~t","~v",":">>>>

chain_markers ==
    <<<<"~n","~a","~p","~i","~s","~a","~l","(","~a",")",":">>, <<"w","r","o","t","e",":">>,
        <<"~o","~t"," ","~k","~o","~g","~o",":">>, <<"f","r","o","m",":">>,
        <<"~o","~t","~p","~r","~a","~v","~l","~e","~n","~o",":">>, <<"s","e","n","t",":">>,
        <<"-","-","-","-","-","o","r","i","g","i","n","a","l"," ","m","e","s","s","a","g","e","-","-","-","-","-">>,
        <<"-","-","-","-","-","~i","~s","~h","~o","~d","~n","~o","~e"," ","~s","~o","~o","~b","~sch","~e","~n","~i","~e","-","-","-","-","-">>>>

\* IMAPClient._analyze_email_type
analyze_email_type(subject, email_body) ==
    IF contains_any(lower(subject), forward_markers) THEN "forwarded"
    ELSE IF contains_any(lower(subject), reply_markers) THEN "reply"
    ELSE IF contains_any(lower(email_body), chain_markers) THEN "chain"
    ELSE "original"

\* signature_markers of _extract_signature_emails (lines 253-262)
imap_signature_markers ==
    <<<<"~s"," ","~u","~v","~a","~zh","~e","~n","~i","~e","~m">>,
        <<"b","e","s","t"," ","r","e","g","a","r","d","s">>,
        <<"~v","~s","~e","~g","~o"," ","~d","~o","~b","~r","~o","~g","~o">>,
        <<"~s"," ","~n","~a","~i","~l","~u","~ch","~sh","~i","~m","~i"," ","~p","~o","~zh","~e","~l","~a","~n","~i","~ya","~m","~i">>,
        <<"-","-","-">>, <<"_","_","_">>, <<"=","=","=","=">>, <<"-","-">>>>

\* the markers of a chain header in the scan of the lines (line 269)
scan_header_markers == <<<<"~o","~t"," ","~k","~o","~g","~o",":">>, <<"f","r","o","m",":">>,
    <<"~o","~t","~p","~r","~a","~v","~l","~e","~n","~o",":">>, <<"s","e","n","t",":">>,
    <<"w","r","o","t","e",":">>, <<"s","u","b","j","e","c","t",":">>>>

\* the markers of a chain header in the scan of the last lines (line 286)
tail_header_markers == <<<<"~o","~t"," ","~k","~o","~g","~o",":">>, <<"f","r","o","m",":">>,
    <<"~o","~t","~p","~r","~a","~v","~l","~e","~n","~o",":">>, <<"s","e","n","t",":">>,
    <<"s","u","b","j","e","c","t",":">>>>

\* r'[\w\.\-]+@[\w\.\-]+'
AddressPattern == Cat(<<Plus(Cls(WordChars \cup {"-","."})), Ch("@"),
    Plus(Cls(WordChars \cup {"-","."}))>>)

\* re.findall(AddressPattern, line)
addresses_in(line) == match_texts(line, re_finditer(AddressPattern, line))

\* the scan of lines 265-280 from line i on
RECURSIVE scan_signature_emails(_, _, _)
scan_line(lines, i, in_signature, line_lower) ==
    IF contains_any(line_lower, scan_header_markers)
    THEN scan_signature_emails(lines, i + 1, FALSE)
    ELSE IF contains_any(line_lower, imap_signature_markers)
    THEN scan_signature_emails(lines, i + 1, TRUE)
    ELSE IF in_signature
    THEN addresses_in(lines[i]) \o scan_signature_emails(lines, i + 1, TRUE)
    ELSE scan_signature_emails(lines, i + 1, FALSE)

scan_signature_emails(lines, i, in_signature) ==
    IF i > Len(lines) THEN <<>>
    ELSE scan_line(lines, i, in_signature, strip(lower(lines[i])))

no_header(line) == ~contains_any(lower(line), tail_header_markers)

addresses_of_lines(kept) == flatten([k \in 1..Len(kept) |-> addresses_in(kept[k])])

\* lines 283-290: without addresses of a signature, those of the last 8
\* lines that are no chain header
or_last_addresses(signature_emails, lines) ==
    IF signature_emails = <<>> /\ Len(lines) > 5
    THEN addresses_of_lines(SelectSeq(SubSeq(lines, Max(1, Len(lines) - 7), Len(lines)),
                                      no_header))
    ELSE signature_emails

signature_emails_in(lines) == or_last_addresses(scan_signature_emails(lines, 1, FALSE), lines)

\* IMAPClient._extract_signature_emails
extract_signature_emails(email_body) == signature_emails_in(split_on(email_body, "\n"))

\* the addresses of a list that are not internal, as a set
external_of(addresses) ==
    {addresses[k] : k \in {j \in 1..Len(addresses) : ~imap_is_internal_email(addresses[j])}}

\* the set external_emails of _has_external_participants (lines 213-233)
external_participants(msg, email_body) ==
    external_of([k \in 1..Len(msg.participants) |-> lower(msg.participants[k])]
                \o extract_signature_emails(email_body))

\* list(a set): the orders in which a set can be iterated
orders_of(S) ==
    {order \in [1..Cardinality(S) -> S] :
        \A i, j \in 1..Cardinality(S) : order[i] = order[j] => i = j}

\* the filter without its test of the score
filter_and_dedupe_contacts_unscored(found) == deduplicate_contacts(found)

\* a filter that clears the issues of the contacts it keeps
filter_and_dedupe_contacts_cleared(found) ==
    LET kept == deduplicate_contacts(SelectSeq(found, LAMBDA c : c.confidence_score >= 5))
    IN  [k \in 1..Len(kept) |-> [kept[k] EXCEPT !.issues = <<>>]]

\* the contacts of a list with a score of 0.5 or more (lines 442-447)
high_quality_of(found) == SelectSeq(found, LAMBDA c : c.confidence_score >= 5)

\* IMAPClient._filter_and_dedupe_contacts: the list it returns
filter_and_dedupe_contacts(found) == deduplicate_contacts(high_quality_of(found))

\* IMAPClient.stats after __init__ (lines 53-69)
NoImapStats ==
    [total_emails |-> 0, external_emails |-> 0, internal_emails |-> 0,
     processed_contacts |-> 0, valid_contacts |-> 0, high_quality_contacts |-> 0,
     low_quality_rejected |-> 0, duplicates_removed |-> 0, successful_extractions |-> 0,
     failed_extractions |-> 0, chain_emails |-> 0, original_emails |-> 0,
     forwarded_emails |-> 0]

\* the counters after the type of a message is known (lines 207-212)
stats_after_type(stats, email_type) ==
    IF email_type = "chain" THEN [stats EXCEPT !.chain_emails = @ + 1]
    ELSE IF email_type = "forwarded" THEN [stats EXCEPT !.forwarded_emails = @ + 1]
    ELSE [stats EXCEPT !.original_emails = @ + 1]

filter_counted(stats, found, high_quality) ==
    [stats EXCEPT
        !.low_quality_rejected = @ + Len(found) - Len(high_quality),
        !.duplicates_removed = @ + Len(high_quality) - Len(deduplicate_contacts(high_quality))]

\* the counters after _filter_and_dedupe_contacts (lines 446, 451-453)
stats_after_filter(stats, found) == filter_counted(stats, found, high_quality_of(found))

\* the counters of lines 374-398
extraction_counted(filtered, found, high_quality_contacts) ==
    IF found # <<>> /\ high_quality_contacts # <<>>
    THEN [filtered EXCEPT !.successful_extractions = @ + 1,
                          !.high_quality_contacts = @ + Len(high_quality_contacts)]
    ELSE IF found # <<>>
    THEN [filtered EXCEPT !.low_quality_rejected = @ + Len(found),
                          !.failed_extractions = @ + 1]
    ELSE [filtered EXCEPT !.failed_extractions = @ + 1]

contacts_counted(counted, found) == [counted EXCEPT !.processed_contacts = @ + Len(found)]

\* the counters after the contacts of a message are handled (lines 369-398)
stats_after_contacts(stats, found, high_quality_contacts) ==
    contacts_counted(
        extraction_counted(IF found # <<>> THEN stats_after_filter(stats, found) ELSE stats,
                           found, high_quality_contacts),
        found)

(***************************************************************************)
(* PhoneExtractorPerfect (test_phonenumbers_perfect.py).  The library      *)
(* phonenumbers is not part of the sources: a number it returns is the     *)
(* record of its ten national digits, and its matcher is modelled for      *)
(* numbers written with +7 or 8 and ten digits in groups.                  *)
(***************************************************************************)
\* re.sub(r'\D', '', s): the digits of a string
digits_of(s) == SelectSeq(s, LAMBDA ch : ch \in Digits)

\* text[:15000] of PhoneExtractorPerfect.extract_phones_only (line 47)
MaxTextLength == 15000

\* start_pos - 30 of PhoneExtractorPerfect.extract_phones_only (line 60)
WindowBefore == 30

\* end_pos + 50 of PhoneExtractorPerfect.extract_phones_only (line 61)
WindowAfter == 50

DigitOrder == <<"0","1","2","3","4","5","6","7","8","9">>

\* int(digits)
RECURSIVE int_of(_)
int_of(digits) ==
    IF digits = <<>> THEN 0
    ELSE 10 * int_of(SubSeq(digits, 1, Len(digits) - 1))
         + IndexIn(DigitOrder, digits[Len(digits)]) - 1

zeros(n) == [k \in 1..n |-> "0"]

\* str(int(digits)) for a string of digits
RECURSIVE strip_zeros(_)
strip_zeros(digits) ==
    IF digits = <<>> THEN <<"0">>
    ELSE IF Head(digits) = "0" THEN strip_zeros(Tail(digits))
    ELSE digits

\* r'\d+\.\d+e[+-]?\d+' of PhoneExtractorPerfect._preprocess_text (line 254)
ScientificPattern ==
    Cat(<<Grp("int", Plus(Cls(Digits))), Ch("."), Grp("frac", Plus(Cls(Digits))),
          Cls({"e", "E"}), Opt(Grp("sign", Cls({"+", "-"}))), Grp("exp", Plus(Cls(Digits)))>>)

\* str(int(float(x))) of fix_scientific (lines 248-252) for x = int.frac e exp:
\* the decimal point moved by the exponent and the fraction cut off; a value
\* float() gives as inf makes int() raise, and the text is kept.  The digits
\* are exact for the values below 2^53.
scientific_value(matched, int_part, frac, sign, exp) ==
    IF sign = <<"-">>
    THEN strip_zeros(SubSeq(int_part, 1, Len(int_part) - exp))
    ELSE IF Len(strip_zeros(int_part)) + exp > 308 THEN matched
    ELSE strip_zeros(int_part \o SubSeq(frac \o zeros(exp), 1, exp))

fix_scientific(text, m) ==
    scientific_value(group0(text, m), match_group(text, m, "int"),
                     match_group(text, m, "frac"), match_group(text, m, "sign"),
                     int_of(match_group(text, m, "exp")))

RECURSIVE preprocess_from(_, _)
fixed_and_later(text, from, m) ==
    IF ~m.ok THEN SubSeq(text, from, Len(text))
    ELSE SubSeq(text, from, m.start - 1) \o fix_scientific(text, m)
         \o preprocess_from(text, m.end)

preprocess_from(text, from) ==
    fixed_and_later(text, from, re_search_from(ScientificPattern, text, from))

\* PhoneExtractorPerfect._preprocess_text
preprocess_text(text) == preprocess_from(text, 1)

\* the characters between the groups of a written number
GroupSeparators == {" ", "-", "(", ")"}

\* text[k] starts a number: +7, or 8 at the start of a word
is_number_start(text, k) ==
    \/ k < Len(text) /\ text[k] = "+" /\ text[k + 1] = "7"
    \/ text[k] = "8" /\ ~IsWordAt(text, k - 1)

\* the position of the first digit or separator after the prefix at k
after_prefix(text, k) == IF text[k] = "+" THEN k + 2 ELSE k + 1

\* the positions at which ten digits in groups, begun at first, end
number_ends(text, first) ==
    {e \in first..Len(text) :
        /\ text[e] \in Digits
        /\ \A j \in first..e : text[j] \in Digits \cup GroupSeparators
        /\ Cardinality({j \in first..e : text[j] \in Digits}) = 10}

number_starts(text, from) ==
    {k \in from..Len(text) :
        is_number_start(text, k) /\ number_ends(text, after_prefix(text, k)) # {}}

\* phonenumbers.PhoneNumberMatcher(text, "RU") of
\* PhoneExtractorPerfect.extract_phones_only (line 53): the numbers written
\* as +7 or 8 and ten digits in groups, from left to right; start is the
\* position of the first character and end the position after the last
RECURSIVE matcher_from(_, _)
match_and_later(text, start, end) ==
    <<[ok |-> TRUE, start |-> start, end |-> end, caps |-> <<>>]>> \o matcher_from(text, end)

first_number(text, starts) ==
    IF starts = {} THEN <<>>
    ELSE match_and_later(text, CHOOSE k \in starts : \A j \in starts : k <= j,
             1 + CHOOSE e \in number_ends(text,
                     after_prefix(text, CHOOSE k \in starts : \A j \in starts : k <= j)) : TRUE)

matcher_from(text, from) == first_number(text, number_starts(text, from))

PhoneNumberMatcher(text) == matcher_from(text, 1)

\* match.number of PhoneExtractorPerfect.extract_phones_only (line 54)
number_of(text, m) == [national |-> SubSeq(digits_of(group0(text, m)), 2, 11)]

\* phonenumbers.is_valid_number of PhoneExtractorPerfect.extract_phones_only
\* (line 56): the national numbers of Russia begin with 3, 4, 8 or 9
is_valid_number(phone_number) == phone_number.national[1] \in {"3", "4", "8", "9"}

\* phonenumbers.format_number(phone_number, INTERNATIONAL) of
\* PhoneExtractorPerfect._format_phone_russian (lines 231-234)
international_format(phone_number) ==
    <<"+", "7", " ">> \o SubSeq(phone_number.national, 1, 3) \o <<" ">>
    \o SubSeq(phone_number.national, 4, 6) \o <<"-">>
    \o SubSeq(phone_number.national, 7, 8) \o <<"-">>
    \o SubSeq(phone_number.national, 9, 10)

\* lines 237-242 of PhoneExtractorPerfect._format_phone_russian
grouped_digits(digits, international) ==
    IF Len(digits) >= 10
    THEN <<"+", "7", " ", "(">> \o SubSeq(digits, 1, 3) \o <<")", " ">>
         \o SubSeq(digits, 4, 6) \o <<"-">> \o SubSeq(digits, 7, 8) \o <<"-">>
         \o SubSeq(digits, 9, 10)
    ELSE international

russian_style(international) ==
    IF startswith(international, <<"+", "7", " ">>)
    THEN grouped_digits(digits_of(SubSeq(international, 4, Len(international))), international)
    ELSE international

\* PhoneExtractorPerfect._format_phone_russian
format_phone_russian(phone_number) == russian_style(international_format(phone_number))

\* r'\+7\s*\((\d{3})\)' of PhoneExtractorPerfect._is_mobile_phone (line 219)
AreaCodePattern ==
    Cat(<<Lit(<<"+", "7">>), Star(Cls(WhiteSpace)), Ch("("),
          Grp("code", Rep(Cls(Digits), 3, 3)), Ch(")")>>)

\* code of PhoneExtractorPerfect._is_mobile_phone (line 220); <<>> is None
area_code(phone, code_match) ==
    IF code_match.ok THEN match_group(phone, code_match, "code") ELSE <<>>

\* PhoneExtractorPerfect._is_mobile_phone
is_mobile_phone(phone) == area_code(phone, re_search(AreaCodePattern, phone)) \in mobile_codes

\* the membership test of _is_mobile_phone over the ranges 910-919, 920-939,
\* 950-969, 980-989 and 999
is_mobile_phone_by_ranges(phone) ==
    area_code(phone, re_search(AreaCodePattern, phone))
        \in {<<"9", a, b>> : a \in {"1", "2", "3", "5", "6", "8"}, b \in Digits}
            \cup {<<"9", "9", "9">>}

ExtensionDigits == Grp("ext", Rep(Cls(Digits), 1, 5))

\* extension_patterns of PhoneExtractorPerfect._extract_extensions_improved
\* (lines 175-182), under re.IGNORECASE
extension_patterns ==
    << Cat(<<LitI(<<"~d","~o","~b">>), Opt(Ch(".")), Star(Cls(WhiteSpace)), ExtensionDigits>>),
       Cat(<<LitI(<<"~d","~o","~p">>), Opt(Ch(".")), Star(Cls(WhiteSpace)), ExtensionDigits>>),
       Cat(<<LitI(<<"~d","~o","~b","~a","~v","~o","~ch","~n","~y","~j">>),
             Plus(Cls(WhiteSpace)), ExtensionDigits>>),
       Cat(<<LitI(<<"e","x","t">>), Opt(Ch(".")), Star(Cls(WhiteSpace)), ExtensionDigits>>),
       Cat(<<LitI(<<"~v","~n">>), Opt(Ch(".")), Star(Cls(WhiteSpace)), ExtensionDigits>>),
       Cat(<<LitI(<<"~v">>), Opt(Ch(".")), Star(Cls(WhiteSpace)), LitI(<<"~n">>),
             Opt(Ch(".")), Star(Cls(WhiteSpace)), ExtensionDigits>>) >>

\* f"доб. {ext_num}" of PhoneExtractorPerfect._extract_extensions_improved
\* (line 190) for the matches of one pattern
formatted_extensions(context_text, matches) ==
    [n \in 1..Len(matches) |->
        <<"~d","~o","~b","."," ">> \o match_group(context_text, matches[n], "ext")]

\* PhoneExtractorPerfect._extract_extensions_improved
extract_extensions_improved(context_text) ==
    unique(flatten([k \in 1..Len(extension_patterns) |->
        formatted_extensions(context_text,
                             re_finditer(extension_patterns[k], context_text))]))

\* variant_pattern of PhoneExtractorPerfect._extract_local_variants (line 121)
VariantPattern ==
    Cat(<<Lit(<<"+", "7">>), Star(Cls(WhiteSpace)), Ch("("), Rep(Cls(Digits), 3, 3), Ch(")"),
          Star(Cls(WhiteSpace)), Rep(Cls(Digits), 3, 3), Star(Cls(WhiteSpace \cup {"-"})),
          Rep(Cls(Digits), 2, 2), Star(Cls(WhiteSpace \cup {"-"})), Rep(Cls(Digits), 2, 2),
          Star(Cls(WhiteSpace)), Ch("("), Grp("variant", Rep(Cls(Digits), 1, 2)), Ch(")")>>)

\* variant_digits.zfill(2)
zfill2(digits) == zeros(2 - Len(digits)) \o digits

\* PhoneExtractorPerfect._create_variant_number
create_variant_number(base_number, variant_digits) ==
    re_sub(Cat(<<Ch("-"), Rep(Cls(Digits), 2, 2), <<"eol">>>>),
           <<"-">> \o zfill2(variant_digits), base_number)

\* lines 124-131 of PhoneExtractorPerfect._extract_local_variants
variants_of(local_context, base_number, variant_match) ==
    IF variant_match.ok /\ ~is_mobile_phone(base_number)
    THEN <<create_variant_number(base_number,
                                 match_group(local_context, variant_match, "variant"))>>
    ELSE <<>>

\* PhoneExtractorPerfect._extract_local_variants
extract_local_variants(local_context, base_number) ==
    variants_of(local_context, base_number, re_search(VariantPattern, local_context))

\* lines 99-103 and 107-111 of PhoneExtractorPerfect._process_single_phone:
\* the extensions are appended to a number that is not mobile
with_extensions(phone, extensions) ==
    IF extensions # <<>> /\ ~is_mobile_phone(phone)
    THEN phone \o <<" ", "(">> \o join(extensions, <<",", " ">>) \o <<")">>
    ELSE phone

all_with_extensions(phones, extensions) ==
    [k \in 1..Len(phones) |-> with_extensions(phones[k], extensions)]

base_and_variants(base_formatted, local_context) ==
    <<base_formatted>> \o extract_local_variants(local_context, base_formatted)

\* PhoneExtractorPerfect._process_single_phone
process_single_phone(phone_number, local_context) ==
    all_with_extensions(base_and_variants(format_phone_russian(phone_number), local_context),
                        extract_extensions_improved(local_context))

\* the context of a number taken as the whole text
whole_text_context(text, m) == text

\* local_context of PhoneExtractorPerfect.extract_phones_only (lines 60-62);
\* match.start of Python is m.start - 1 and match.end is m.end - 1
local_context_of(text, m) ==
    SubSeq(text, Max(0, (m.start - 1) - WindowBefore) + 1,
           Min(Len(text), (m.end - 1) + WindowAfter))

\* lines 54-70 of PhoneExtractorPerfect.extract_phones_only for one match
phones_of_match(text, m) ==
    IF is_valid_number(number_of(text, m))
    THEN process_single_phone(number_of(text, m), local_context_of(text, m))
    ELSE <<>>

phones_of_matches(text, matches) ==
    flatten([k \in 1..Len(matches) |-> phones_of_match(text, matches[k])])

\* pattern of PhoneExtractorPerfect._extract_comma_separated_phones (line 141)
CommaPattern ==
    Cat(<<Lit(<<"+", "7">>), Star(Cls(WhiteSpace)), Ch("("),
          Grp("g1", Rep(Cls(Digits), 3, 5)), Ch(")"), Star(Cls(WhiteSpace)),
          Grp("g2", Rep(Cls(Digits), 1, 3)), Star(Cls(WhiteSpace \cup {"-"})),
          Grp("g3", Rep(Cls(Digits), 2, 2)), Star(Cls(WhiteSpace \cup {"-"})),
          Grp("g4", Rep(Cls(Digits), 2, 2)), Star(Cls(WhiteSpace)), Ch(","),
          Star(Cls(WhiteSpace)),
          Grp("g5", Rep(Cls(Digits), 1, 3)), Star(Cls(WhiteSpace \cup {"-"})),
          Grp("g6", Rep(Cls(Digits), 2, 2)), Star(Cls(WhiteSpace \cup {"-"})),
          Grp("g7", Rep(Cls(Digits), 2, 2))>>)

\* f"+7 ({real_code}) {part}-{mid}-{end}" (lines 162-163)
number_of_parts(real_code, part, mid, end) ==
    <<"+", "7", " ", "(">> \o real_code \o <<")", " ">> \o part \o <<"-">> \o mid
    \o <<"-">> \o end

\* lines 155-165 of PhoneExtractorPerfect._extract_comma_separated_phones:
\* of a code of five digits the first three are the code and the other two
\* go before the first number
comma_pair(code_raw, first_part, first_mid, first_end, second_part, second_mid, second_end) ==
    IF Len(code_raw) = 5
    THEN <<number_of_parts(SubSeq(code_raw, 1, 3), SubSeq(code_raw, 4, 5) \o first_part,
                           first_mid, first_end),
           number_of_parts(SubSeq(code_raw, 1, 3), second_part, second_mid, second_end)>>
    ELSE <<number_of_parts(code_raw, first_part, first_mid, first_end),
           number_of_parts(code_raw, second_part, second_mid, second_end)>>

\* lines 167-180 of PhoneExtractorFinalFixed._extract_comma_separated_phones
\* (arhive/test_phones_only.py): the second number with the two digits of
\* the code put before it, in groups of 3, 2 and 2 when it has 7 digits
second_number_of(real_code, second_number_full, second_part, second_mid, second_end) ==
    IF Len(second_number_full) >= 7
    THEN number_of_parts(real_code, SubSeq(second_number_full, 1, 3),
                         SubSeq(second_number_full, 4, 5), SubSeq(second_number_full, 6, 7))
    ELSE number_of_parts(real_code, second_part, second_mid, second_end)

\* lines 155-182 of PhoneExtractorFinalFixed._extract_comma_separated_phones
comma_pair_archived(code_raw, first_part, first_mid, first_end, second_part, second_mid, second_end) ==
    IF Len(code_raw) = 5
    THEN <<number_of_parts(SubSeq(code_raw, 1, 3), SubSeq(code_raw, 4, 5) \o first_part,
                           first_mid, first_end),
           second_number_of(SubSeq(code_raw, 1, 3),
                            SubSeq(code_raw, 4, 5) \o second_part \o second_mid \o second_end,
                            second_part, second_mid, second_end)>>
    ELSE <<number_of_parts(code_raw, first_part, first_mid, first_end),
           second_number_of(code_raw, second_part \o second_mid \o second_end,
                            second_part, second_mid, second_end)>>

comma_pair_of(text, m) ==
    comma_pair(match_group(text, m, "g1"), match_group(text, m, "g2"),
               match_group(text, m, "g3"), match_group(text, m, "g4"),
               match_group(text, m, "g5"), match_group(text, m, "g6"),
               match_group(text, m, "g7"))

comma_pairs(text, matches) == flatten([k \in 1..Len(matches) |-> comma_pair_of(text, matches[k])])

\* PhoneExtractorPerfect._extract_comma_separated_phones
extract_comma_separated_phones(text) == comma_pairs(text, re_finditer(CommaPattern, text))

comma_pair_archived_of(text, m) ==
    comma_pair_archived(match_group(text, m, "g1"), match_group(text, m, "g2"),
                        match_group(text, m, "g3"), match_group(text, m, "g4"),
                        match_group(text, m, "g5"), match_group(text, m, "g6"),
                        match_group(text, m, "g7"))

comma_pairs_archived(text, matches) ==
    flatten([k \in 1..Len(matches) |-> comma_pair_archived_of(text, matches[k])])

\* PhoneExtractorFinalFixed._extract_comma_separated_phones, whose pattern
\* (line 141) is that of PhoneExtractorPerfect
extract_comma_separated_phones_archived(text) ==
    comma_pairs_archived(text, re_finditer(CommaPattern, text))

\* r'\s*\([^)]*доб\.[^)]*\)' of PhoneExtractorPerfect._postprocess_mobile_phones
\* (line 206)
ExtensionInParentheses ==
    Cat(<<Star(Cls(WhiteSpace)), Ch("("), Star(<<"not", {")"}>>),
          Lit(<<"~d","~o","~b",".">>), Star(<<"not", {")"}>>), Ch(")")>>)

\* lines 204-206 of PhoneExtractorPerfect._postprocess_mobile_phones
without_mobile_extension(phone) ==
    IF is_mobile_phone(phone) THEN re_remove(ExtensionInParentheses, phone) ELSE phone

\* PhoneExtractorPerfect._postprocess_mobile_phones
postprocess_mobile_phones(phones) ==
    unique([k \in 1..Len(phones) |-> without_mobile_extension(phones[k])])

\* lines 50-77 of PhoneExtractorPerfect.extract_phones_only on the text cut
\* and preprocessed
phones_in(text) ==
    postprocess_mobile_phones(phones_of_matches(text, PhoneNumberMatcher(text))
                              \o extract_comma_separated_phones(text))

\* lines 47-48 of PhoneExtractorPerfect.extract_phones_only
prepared_text(text) == preprocess_text(SubSeq(text, 1, Min(Len(text), MaxTextLength)))

\* PhoneExtractorPerfect.extract_phones_only
extract_phones_only(text) == IF text = <<>> THEN <<>> ELSE phones_in(prepared_text(text))

\* ---- end of the program's functions ----

(***************************************************************************)
(* Inputs of the deduplicator                                              *)
(***************************************************************************)
MaxContacts == 3

\* two spellings of one address, and no address
DedupEmails == { <<>>, <<"a","@","b">>, <<"A","@","b"," ">> }

\* no name; a plain name; the same name with a doubled space; a name with a
\* Latin s
DedupFios == { <<>>, <<"J"," ","o">>, <<"J"," "," ","o">>, <<"J","s","O">> }

DedupScores == {6, 8}

DedupContacts ==
    [email : DedupEmails, fio : DedupFios, confidence_score : DedupScores]

\* the configuration when none of the data files exists (_load_list_from_file
\* returns the empty set)
NoConfig ==
    /\ internal_domains = {}
    /\ blacklist_emails = {}
    /\ company_blacklist = {}
    /\ stop_words_person = {}
    /\ stop_words_org = {}

\* ContactProcessor.stats after __init__ (lines 79-86)
NoStats ==
    [processed |-> 0, with_issues |-> 0, high_confidence |-> 0, low_confidence |-> 0,
     successful_extractions |-> 0, failed_extractions |-> 0]

\* no call of process_email_signature is under way
SigIdle ==
    /\ arg_email_body = [type |-> "NoneType", val |-> <<>>]
    /\ arg_external_emails = [type |-> "NoneType", val |-> <<>>]
    /\ tagger_answer = [per |-> <<>>, org |-> <<>>, rev |-> FALSE]
    /\ returned = [raised |-> FALSE, value |-> <<>>]
    /\ block_calls = <<>>
    /\ cp_stats = NoStats
    /\ sig_pc = "idle"

\* _expand_job_contextually is not called
ExpandIdle ==
    /\ expand_context = <<>>
    /\ expand_indicator = <<>>
    /\ expand_title = [type |-> "NoneType", val |-> <<>>]
    /\ expand_pc = "idle"

\* no date is on its way to a Contact
DateIdle ==
    /\ mail_date = [parsed |-> FALSE, raw |-> <<>>]
    /\ date_str = <<>>
    /\ email_date = <<>>
    /\ date_pc = "idle"

\* safe_fetch is not called
FetchIdle ==
    /\ mail = "None"
    /\ fetch_attempt = 0
    /\ fetch_log = <<>>
    /\ fetch_result = [returned |-> FALSE, data |-> "None"]
    /\ fetch_pc = "idle"

\* fetch_emails_month_robust is not called
MonthIdle ==
    /\ month_days = <<>>
    /\ day_counter = 0
    /\ msg_pos = 0
    /\ processed_emails = 0
    /\ all_records = <<>>
    /\ reconnect_log = <<>>
    /\ fetch_calls = {}
    /\ month_pc = "idle"

\* no function of seven_months_extractor.py is running
ExtractorIdle == FetchIdle /\ MonthIdle

\* none of the operations that are called on their own is running
UnitsIdle == ExpandIdle /\ DateIdle /\ ExtractorIdle

\* _extract_clean_signatures is not called
LocateIdle ==
    /\ located_body = <<>>
    /\ located_blocks = <<>>
    /\ locate_pc = "idle"

\* no phone extractor is called
PhoneIdle ==
    /\ phone_text = <<>>
    /\ phone_match = <<>>
    /\ phone_found = <<>>
    /\ phone_pc = "idle"

\* process_emails is not running
RunIdle ==
    /\ mailbox = <<>>
    /\ msg_index = 0
    /\ processed_contacts = <<>>
    /\ run_result = <<>>
    /\ imap_stats = NoImapStats
    /\ run_pc = "idle"

DedupInit ==
    /\ NoConfig
    /\ SigIdle
    /\ RunIdle
    /\ PhoneIdle
    /\ LocateIdle
    /\ UnitsIdle
    /\ contacts \in UNION {[1..n -> DedupContacts] : n \in 0..MaxContacts}
    /\ unique_contacts = <<>>
    /\ deduped_again = <<>>
    /\ dd_pc = "start"

Deduplicate ==
    /\ dd_pc = "start"
    /\ unique_contacts' = deduplicate_contacts(contacts)
    /\ dd_pc' = "once"
    /\ UNCHANGED <<contacts, deduped_again, ConfigVars, PhoneVars, LocateVars, UnitVars, SigVars, RunVars>>

DeduplicateAgain ==
    /\ dd_pc = "once"
    /\ deduped_again' = deduplicate_contacts(unique_contacts)
    /\ dd_pc' = "twice"
    /\ UNCHANGED <<contacts, unique_contacts, ConfigVars, PhoneVars, LocateVars, UnitVars, SigVars, RunVars>>

DedupNext == Deduplicate \/ DeduplicateAgain

SpecDedup == DedupInit /\ [][DedupNext]_vars

(***************************************************************************)
(* Properties of the deduplicator                                          *)
(***************************************************************************)
norm_email(c) == strip(lower(c.email))

norm_fio(c) == collapse_whitespace(strip(lower(c.fio)))

\* the positions of a list whose contacts have the dedup key k
WithKey(cs, k) == {i \in 1..Len(cs) : has_key_parts(cs[i]) /\ dedup_key(cs[i]) = k}

\* the positions of a list whose contacts have no fio and the normalized email e
EmailOnly(cs, e) ==
    {i \in 1..Len(cs) : cs[i].fio = <<>> /\ cs[i].email # <<>> /\ norm_email(cs[i]) = e}

\* the positions of a list whose contacts have the normalized email e
WithEmail(cs, e) == {i \in 1..Len(cs) : cs[i].email # <<>> /\ norm_email(cs[i]) = e}

\* the earliest position of a group that has the maximal score of the group
EarliestBest(cs, group) ==
    CHOOSE i \in group :
        /\ \A j \in group : cs[j].confidence_score <= cs[i].confidence_score
        /\ \A j \in group : cs[j].confidence_score = cs[i].confidence_score => i <= j

\* C1 (as claimed): deduplicate_contacts is idempotent: applying it to its own
\* result returns the same contacts in the same order.
C1_Idempotent == dd_pc = "twice" => deduped_again = unique_contacts

C4_SurvivorIsEarliestBest ==
    dd_pc # "start" =>
        \A i \in 1..Len(contacts) :
            has_key_parts(contacts[i]) =>
                LET k == dedup_key(contacts[i])
                    kept == WithKey(unique_contacts, k)
                IN  /\ Cardinality(kept) = 1
                    /\ \A n \in kept :
                          unique_contacts[n] = contacts[EarliestBest(contacts, WithKey(contacts, k))]

(***************************************************************************)
(* One call of process_email_signature                                     *)
(***************************************************************************)
MaxBodyLines == 3

\* the lines a message body is made of: a separator line that names the
\* internal domain, a city after a blank, a salutation with a company, a job
\* title, a person, a company, a mobile number followed by an extension, the
\* internal office address, a postal address with an email address, a
\* mobile number written in two ways
SigLines ==
    <<<<"-","-"," ","~O","~O","~O"," ","~R","~o","~m","~a","~sh","~k","~a",","," ","i","n","f","o","@","d","n","a","-","t","e","c","h","n","o","l","o","g","y",".","r","u">>,
      <<" ","~I","~r","~k","~u","~t","~s","~k">>,
      <<"B","e","s","t"," ","r","e","g","a","r","d","s",","," ","~O","~O","~O"," ","~R","~o","~m","~a","~sh","~k","~a">>,
      <<"~D","~i","~r","~e","~k","~t","~o","~r"," ","~p","~o"," ","~p","~r","~o","~d","~a","~zh","~a","~m">>,
      <<"~I","~v","~a","~n","~o","~v"," ","~I","~v","~a","~n"," ","~I","~v","~a","~n","~o","~v","~i","~ch">>,
      <<"~O","~O","~O"," ","~R","~o","~m","~a","~sh","~k","~a">>,
      <<"+","7"," ","(","9","1","3",")"," ","7","0","8","-","1","2","-","9","8"," ","~d","~o","~b","."," ","1","2">>,
      <<"~V","~a","~r","~sh","~a","~v","~s","~k","~o","~e"," ","~sh","~o","~s","~s","~e",","," ","~d","~o","~m"," ","1","2","5","~Zh">>,
      <<"~u","~l","."," ","~L","~e","~n","~i","~n","~a",","," ","~d","."," ","5",","," ","p","e","t","r","@","c","o","r","p",".","r","u">>,
      <<"+","7","-","9","1","3","-","3","9","9","-","3","2","-","7","2",","," ","+","7"," ","(","9","1","3",")"," ","3","9","9","-","3","2","-","7","2">>>>

\* the lines of SigLines at the positions of a set, in their order
lines_at(positions) ==
    LET chosen(k) == k \in positions
        at == SelectSeq([k \in 1..Len(SigLines) |-> k], chosen)
    IN  [j \in 1..Len(at) |-> SigLines[at[j]]]

PyNone == [type |-> "NoneType", val |-> <<>>]

PyStr(s) == [type |-> "str", val |-> s]

PyList(elems) == [type |-> "list", val |-> elems]

\* the bodies: up to MaxBodyLines lines, and a body that is not a string
SigBodies ==
    {PyStr(join(lines_at(ps), Newline)) :
        ps \in {qs \in SUBSET (1..Len(SigLines)) : Cardinality(qs) <= MaxBodyLines}}
    \cup {PyNone}

\* the participants: not a list; None, an address of corp.ru and a string
\* without @; an address of ext.com
SigExternals ==
    {PyNone,
     PyList(<<PyNone, PyStr(<<"p","e","t","r","@","c","o","r","p",".","r","u">>),
              PyStr(<<"n","o","a","t">>)>>),
     PyList(<<PyStr(<<"s","p","a","m","@","e","x","t",".","c","o","m">>)>>)}

\* the answers of the environment: the tagger finds nothing, or it finds the
\* person and the company wherever the text has them
TaggerAnswers ==
    {[per |-> <<>>, org |-> <<>>, rev |-> FALSE],
     [per |-> <<"~I","~v","~a","~n","~o","~v"," ","~I","~v","~a","~n">>,
      org |-> <<"~O","~O","~O"," ","~R","~o","~m","~a","~sh","~k","~a">>, rev |-> TRUE]}

\* data files with one entry each
SampleConfig ==
    /\ internal_domains = {<<"c","o","r","p",".","r","u">>}
    /\ blacklist_emails = {<<"s","p","a","m","@","e","x","t",".","c","o","m">>}
    /\ company_blacklist = {<<"~r","~o","~g","~a">>}
    /\ stop_words_person = {<<"~p","~e","~t","~r","~o","~v">>}
    /\ stop_words_org = {<<"~v","~e","~k","~t","~o","~r">>}

DedupIdle ==
    /\ contacts = <<>>
    /\ unique_contacts = <<>>
    /\ deduped_again = <<>>
    /\ dd_pc = "idle"

SigInit ==
    /\ NoConfig \/ SampleConfig
    /\ DedupIdle
    /\ RunIdle
    /\ PhoneIdle
    /\ LocateIdle
    /\ UnitsIdle
    /\ arg_email_body \in SigBodies
    /\ arg_external_emails \in SigExternals
    /\ tagger_answer \in TaggerAnswers
    /\ returned = [raised |-> FALSE, value |-> <<>>]
    /\ block_calls = <<>>
    /\ cp_stats = NoStats
    /\ sig_pc = "ready"

\* the counters after the loop of lines 165-175 over the returned contacts,
\* or after the except clause (line 181)
stats_after(stats, r) ==
    LET n(test(_)) == Len(SelectSeq(r.value, test))
        any(c) == TRUE
        has_issues(c) == c.issues # <<>>
        high(c) == c.confidence_score >= 5
        low(c) == c.confidence_score < 5
    IN  [processed |-> stats.processed + n(any),
         with_issues |-> stats.with_issues + n(has_issues),
         high_confidence |-> stats.high_confidence + n(high),
         low_confidence |-> stats.low_confidence + n(low),
         successful_extractions |-> stats.successful_extractions,
         failed_extractions |-> stats.failed_extractions
                                + (IF r.failed_extraction THEN 1 ELSE 0)]

\* what the call leaves: its return, the calls it made and the counters
Returns(r) ==
    /\ returned' = [raised |-> r.raised, value |-> r.value]
    /\ block_calls' = r.calls
    /\ cp_stats' = stats_after(cp_stats, r)

\* ContactProcessor.process_email_signature, the whole call
ProcessEmailSignature ==
    /\ sig_pc = "ready"
    /\ Returns(process_email_signature(arg_email_body, arg_external_emails, tagger_answer))
    /\ sig_pc' = "returned"
    /\ UNCHANGED <<arg_email_body, arg_external_emails, tagger_answer, ConfigVars, PhoneVars, LocateVars, UnitVars, DedupVars,
                   RunVars>>

SigNext == ProcessEmailSignature

SpecSig == SigInit /\ [][SigNext]_vars

(***************************************************************************)
(* Properties of process_email_signature                                   *)
(***************************************************************************)
HasAt(s) == "@" \in Range(s)

\* the acceptance gate as the specification words it
PassesGate(c) ==
    /\ ~is_internal_email(c.email)
    /\ strip(c.fio) # <<>> \/ strip(c.company) # <<>>
    /\ HasAt(c.email) \/ c.phones # <<>>

\* the participants hold an address that is external
HasExternal == arg_external_emails.type = "list" /\ truly_external(arg_external_emails.val) # <<>>

\* C5: every Contact returned by process_email_signature passed the acceptance
\* gate: its email is not internal-classified, it has a non-blank fio or a
\* non-blank company, and an email containing @ or at least one phone.  A
\* candidate that fails the gate is not returned, whatever its score would be.
C5_OnlyGatePassersReturned ==
    sig_pc = "returned" =>
        /\ \A k \in 1..Len(returned.value) : PassesGate(returned.value[k])
        /\ \A k \in 1..Len(block_calls) :
              (block_calls[k].assembled # <<>> /\ ~PassesGate(block_calls[k].assembled[1]))
                  => block_calls[k].result = <<>>
        /\ Len(returned.value) = Len(results_of(block_calls))

\* C5 witness: a candidate with a position and a phone, so with a score of 0.3
\* or more, but with neither fio nor company, was assembled and not returned.
C5_Witness ==
    /\ sig_pc = "returned"
    /\ returned.value = <<>>
    /\ \E k \in 1..Len(block_calls) :
          /\ block_calls[k].assembled # <<>>
          /\ block_calls[k].assembled[1].phones # <<>>
          /\ block_calls[k].assembled[1].position # <<>>
          /\ block_calls[k].assembled[1].company = <<>>
          /\ block_calls[k].result = <<>>

\* the weighted sum of the specification, in tenths
WeightedSum(c) ==
    (IF Len(split_words(c.fio)) >= 2 THEN 3 ELSE 0)
    + (IF c.position # <<>> THEN 1 ELSE 0)
    + (IF c.company # <<>> THEN 2 ELSE 0)
    + (IF c.phones # <<>> THEN 2 ELSE 0)
    + (IF c.email # <<>> /\ HasAt(c.email) THEN 1 ELSE 0)
    + (IF c.address # <<>> THEN 1 ELSE 0)

\* C6: for every Contact returned by process_email_signature the
\* confidence_score is the weighted sum 0.30 fio of two tokens or more + 0.10
\* position + 0.20 company + 0.20 any phone + 0.10 email with @ + 0.10
\* address of the contact's own final fields, a multiple of 0.1 in [0, 1].
C6_ScoreIsWeightedSum ==
    sig_pc = "returned" =>
        \A k \in 1..Len(returned.value) :
            /\ returned.value[k].confidence_score = WeightedSum(returned.value[k])
            /\ returned.value[k].confidence_score \in 0..10

\* C6 witness: a returned contact with a company, a phone and an email with @,
\* scored 0.5.
C6_Witness ==
    /\ sig_pc = "returned"
    /\ \E k \in 1..Len(returned.value) :
          /\ returned.value[k].company # <<>>
          /\ returned.value[k].phones # <<>>
          /\ HasAt(returned.value[k].email)
          /\ returned.value[k].confidence_score = 5

\* the canonical phone has a mobile area code
HasMobileCode(phone) ==
    /\ Len(phone) >= 7
    /\ SubSeq(phone, 1, 4) = <<"+", "7", " ", "(">>
    /\ SubSeq(phone, 5, 7) \in mobile_codes

ExtensionSuffix == <<"(","~d","~o","~b",".">>

\* C7 (as claimed): no phone with a mobile area code in the phones of a
\* returned Contact contains the extension suffix.
C7_NoExtensionOnMobile ==
    sig_pc = "returned" =>
        \A k \in 1..Len(returned.value) :
            \A n \in 1..Len(returned.value[k].phones) :
                HasMobileCode(returned.value[k].phones[n])
                    => ~contains(returned.value[k].phones[n], ExtensionSuffix)

\* the person name of the specification's example and its title
ExampleName == <<"~I","~v","~a","~n","~o","~v"," ","~I","~v","~a","~n"," ","~I","~v","~a","~n","~o","~v","~i","~ch">>

ExampleTitle == <<"~D","~i","~r","~e","~k","~t","~o","~r"," ","~p","~o"," ","~p","~r","~o","~d","~a","~zh","~a","~m">>

\* a name of 2-4 capitalized tokens that is not a stop word
IsPersonName(name) ==
    /\ Len(split_words(name)) \in 2..4
    /\ \A k \in 1..Len(split_words(name)) : is_capitalized_cyr(split_words(name)[k])
    /\ ~is_stop_word_person(name)

\* C8 (as claimed): when the entity extractor returns one person name for a
\* block, the Contact assembled by _process_signature_block has that name as
\* fio; and the body "title, newline, name" with an external participant
\* yields exactly one Contact with the name as fio, a position containing the
\* title and a score of 0.4 or more.
C8_FioIsExtractedName ==
    sig_pc = "returned" =>
        /\ \A k \in 1..Len(block_calls) :
              ( /\ block_calls[k].assembled # <<>>
                /\ Len(block_calls[k].persons) = 1
                /\ IsPersonName(block_calls[k].persons[1]) )
              => block_calls[k].assembled[1].fio = block_calls[k].persons[1]
        /\ ( /\ arg_email_body = PyStr(ExampleTitle \o Newline \o ExampleName)
             /\ HasExternal )
           => /\ Len(returned.value) = 1
              /\ returned.value[1].fio = ExampleName
              /\ contains(returned.value[1].position, ExampleTitle)
              /\ returned.value[1].confidence_score >= 4

\* the line contains a critical internal marker
HasInternalMarker(line) == contains_any(lower(line), critical_internal_markers)

\* every line of the body contains a critical internal marker
AllInternal(body) ==
    /\ body.type = "str"
    /\ \A k \in 1..Len(split_on(body.val, "\n")) :
          HasInternalMarker(split_on(body.val, "\n")[k])

\* C9: a body in which every line contains an internal marker (the internal
\* domain, the internal office address or another critical internal marker)
\* yields no Contact from process_email_signature, neither through the
\* signature blocks nor through the whole-body fallback, whatever the
\* extractors would find in those lines: no line of it reaches a call of
\* _process_signature_block.
C9_InternalLinesYieldNothing ==
    (sig_pc = "returned" /\ AllInternal(arg_email_body)) =>
        /\ returned.value = <<>>
        /\ block_calls = <<>>

\* C9 witness: a separator line that names a company and an address of the
\* internal domain, followed by the office address, with an external
\* participant and a tagger that finds the company, was processed.
C9_Witness ==
    /\ sig_pc = "returned"
    /\ AllInternal(arg_email_body)
    /\ Len(split_on(arg_email_body.val, "\n")) = 2
    /\ is_marker_line(split_on(arg_email_body.val, "\n")[1])
    /\ contains(arg_email_body.val, tagger_answer.org)
    /\ tagger_answer.org # <<>>
    /\ HasExternal
    /\ returned.value = <<>>

\* the blocks process_email_signature hands to _process_signature_block
LocatedBlocks(body) ==
    LET long(block) == Len(strip(block)) > 15
    IN  SelectSeq(extract_clean_signatures(body), long)

\* the cases in which the claim and the code agree: nothing escapes, and the
\* result is empty for a body that is not a string, for participants that
\* are not a list and when no participant is external
EmptyOnBadArguments ==
    /\ ~returned.raised
    /\ arg_email_body.type # "str" => returned.value = <<>>
    /\ arg_external_emails.type # "list" => returned.value = <<>>
    /\ ~HasExternal => returned.value = <<>>

\* C10 (as claimed): no exception escapes process_email_signature, and it
\* returns the empty list when email_body is not a string, when
\* external_emails is not a list, when no supplied address is external, or
\* when the processing of a block fails.
C10_EmptyOnAnyFailure ==
    sig_pc = "returned" =>
        /\ EmptyOnBadArguments
        /\ (\E k \in 1..Len(block_calls) : block_calls[k].failed) => returned.value = <<>>

\* C10 (amended): no exception escapes process_email_signature, and it
\* returns the empty list when email_body is not a string, when
\* external_emails is not a list and when no supplied address is external.
\* A block whose processing fails contributes no contact and is not counted as
\* a failed extraction; the blocks after it are still processed, and the
\* contacts of the other blocks are returned.
C10_FailedBlockIsSkipped ==
    sig_pc = "returned" =>
        /\ EmptyOnBadArguments
        /\ \A k \in 1..Len(block_calls) : block_calls[k].failed => block_calls[k].result = <<>>
        /\ cp_stats.failed_extractions = 0
        /\ (arg_email_body.type = "str" /\ HasExternal) =>
              LET blocks == LocatedBlocks(arg_email_body.val)
              IN  /\ Len(block_calls) >= Len(blocks)
                  /\ \A k \in 1..Len(blocks) : block_calls[k].block = blocks[k]
        /\ Len(returned.value) = Len(results_of(block_calls))
        /\ \A k \in 1..Len(returned.value) :
              returned.value[k].email = results_of(block_calls)[k].email

\* C10 witness: the processing of the first block failed, and the contact of
\* the second block was returned.
C10_Witness ==
    /\ sig_pc = "returned"
    /\ Len(block_calls) = 2
    /\ block_calls[1].failed
    /\ ~block_calls[2].failed
    /\ Len(returned.value) = 1

(***************************************************************************)
(* One run of process_emails                                               *)
(***************************************************************************)
MaxMessages == 2

FindsCompany ==
    [per |-> <<"~I","~v","~a","~n","~o","~v"," ","~I","~v","~a","~n">>,
        org |-> <<"~O","~O","~O"," ","~R","~o","~m","~a","~sh","~k","~a">>, rev |-> FALSE]

\* the messages of the mailbox: a reply from an external address with a
\* company and a phone; a message with a company and a title only; a
\* forwarded internal message whose signature holds an address; a message
\* with two external participants and an address in its signature; a message
\* whose fetch fails; a message from a blacklisted address with two
\* signature markers; a message whose fetch raises; a message with a blank
\* body; a message on whose signature the extractors raise
RunMessages ==
    {[fetched |-> TRUE, fetch_raises |-> FALSE, subject |-> <<"R","e",":"," ","o","f","f","e","r">>,
      participants |-> <<<<"I","v","a","n","@","e","x","t",".","c","o","m">>,
          <<"i","n","f","o","@","d","n","a","-","t","e","c","h","n","o","l","o","g","y",".","r","u">>>>,
      payload |-> join(lines_at({3, 7}), Newline) \o Newline, tagger |-> FindsCompany],
     [fetched |-> TRUE, fetch_raises |-> FALSE, subject |-> <<"o","f","f","e","r">>,
      participants |-> <<<<"p","e","t","r","@","c","o","r","p",".","r","u">>>>,
      payload |-> join(lines_at({3, 4}), Newline), tagger |-> FindsCompany],
     [fetched |-> TRUE, fetch_raises |-> FALSE, subject |-> <<"F","w","d",":"," ","o","f","f","e","r">>,
      participants |-> <<<<"i","n","f","o","@","d","n","a","-","t","e","c","h","n","o","l","o","g","y",".","r","u">>>>,
      payload |-> join(lines_at({3, 7, 9}), Newline), tagger |-> FindsCompany],
     [fetched |-> TRUE, fetch_raises |-> FALSE, subject |-> <<"o","f","f","e","r">>,
      participants |-> <<<<"i","v","a","n","@","e","x","t",".","c","o","m">>,
          <<"a","n","n","a","@","e","x","t",".","c","o","m">>>>,
      payload |-> join(lines_at({3, 7, 9}), Newline), tagger |-> FindsCompany],
     [fetched |-> FALSE, fetch_raises |-> FALSE, subject |-> <<"o","f","f","e","r">>,
      participants |-> <<<<"i","v","a","n","@","e","x","t",".","c","o","m">>>>,
      payload |-> join(lines_at({3, 7}), Newline), tagger |-> FindsCompany],
     [fetched |-> TRUE, fetch_raises |-> FALSE, subject |-> <<"o","f","f","e","r">>,
      participants |-> <<<<"s","p","a","m","@","e","x","t",".","c","o","m">>>>,
      payload |-> join(lines_at({1, 3, 7}), Newline), tagger |-> FindsCompany],
     [fetched |-> TRUE, fetch_raises |-> TRUE, subject |-> <<"o","f","f","e","r">>,
      participants |-> <<<<"i","v","a","n","@","e","x","t",".","c","o","m">>>>,
      payload |-> join(lines_at({3, 7}), Newline), tagger |-> FindsCompany],
     [fetched |-> TRUE, fetch_raises |-> FALSE, subject |-> <<"o","f","f","e","r">>,
      participants |-> <<<<"i","v","a","n","@","e","x","t",".","c","o","m">>>>,
      payload |-> <<" ">> \o Newline, tagger |-> FindsCompany],
     [fetched |-> TRUE, fetch_raises |-> FALSE, subject |-> <<"o","f","f","e","r">>,
      participants |-> <<<<"i","v","a","n","@","e","x","t",".","c","o","m">>>>,
      payload |-> join(<<SigLines[3], SigLines[2]>>, Newline), tagger |-> FindsCompany]}

RunInit ==
    /\ NoConfig \/ SampleConfig
    /\ DedupIdle
    /\ SigIdle
    /\ PhoneIdle
    /\ LocateIdle
    /\ UnitsIdle
    /\ mailbox \in UNION {[1..n -> RunMessages] : n \in 0..MaxMessages}
    /\ msg_index = 0
    /\ processed_contacts = <<>>
    /\ run_result = <<>>
    /\ imap_stats = NoImapStats
    /\ run_pc = "start"

\* lines 300-318: the connection and the search succeed
Connect ==
    /\ run_pc = "start"
    /\ imap_stats' = [imap_stats EXCEPT !.total_emails = Len(mailbox)]
    /\ msg_index' = 1
    /\ run_pc' = "loop"
    /\ UNCHANGED <<mailbox, processed_contacts, run_result, ConfigVars, PhoneVars, LocateVars, UnitVars, DedupVars, SigVars>>

\* lines 300-318 raise: the exception is logged and raised again (lines
\* 428-430)
ConnectFails ==
    /\ run_pc = "start"
    /\ run_pc' = "raised"
    /\ UNCHANGED <<mailbox, msg_index, processed_contacts, run_result, imap_stats,
                   ConfigVars, PhoneVars, LocateVars, UnitVars, DedupVars, SigVars>>

\* lines 369-398: the contacts of the message are filtered, kept and counted
Kept(r, typed, high_quality_contacts) ==
    /\ processed_contacts' = processed_contacts \o high_quality_contacts
    /\ imap_stats' = stats_after_contacts([typed EXCEPT !.external_emails = @ + 1],
                                          r.value, high_quality_contacts)
    /\ cp_stats' = stats_after(cp_stats, r)

Handled(r, typed) == Kept(r, typed, filter_and_dedupe_contacts(r.value))

\* lines 347-366 without the test of line 352: every message goes to the
\* contact processor
Routed_unchecked(msg, body, typed, external) ==
    \E result_emails \in orders_of(external) :
        Handled(process_email_signature(
                    PyStr(body),
                    PyList([k \in 1..Len(result_emails) |-> PyStr(result_emails[k])]),
                    msg.tagger),
                typed)

\* lines 347-366: a message without external participants is counted and
\* skipped, else its external addresses go to the contact processor
Routed(msg, body, typed, external) ==
    IF external = {}
    THEN /\ imap_stats' = [typed EXCEPT !.internal_emails = @ + 1]
         /\ UNCHANGED <<processed_contacts, cp_stats>>
    ELSE \E result_emails \in orders_of(external) :
            Handled(process_email_signature(
                        PyStr(body),
                        PyList([k \in 1..Len(result_emails) |-> PyStr(result_emails[k])]),
                        msg.tagger),
                    typed)

\* lines 337-345: the body and the type of the message
Read(msg, body) ==
    Routed(msg, body,
           stats_after_type(imap_stats, analyze_email_type(msg.subject, body)),
           external_participants(msg, body))

\* the loop without the except clause of lines 408-410: an exception of the
\* fetch reaches the outer except clause, which raises it again
ProcessMessage_unguarded ==
    /\ run_pc = "loop"
    /\ msg_index <= Len(mailbox)
    /\ IF mailbox[msg_index].fetch_raises
       THEN /\ run_pc' = "raised"
            /\ UNCHANGED <<processed_contacts, imap_stats, cp_stats, msg_index>>
       ELSE /\ IF ~mailbox[msg_index].fetched
               THEN UNCHANGED <<processed_contacts, imap_stats, cp_stats>>
               ELSE Read(mailbox[msg_index], extract_email_body(mailbox[msg_index]))
            /\ msg_index' = msg_index + 1
            /\ UNCHANGED run_pc
    /\ UNCHANGED <<mailbox, run_result, ConfigVars, PhoneVars, LocateVars, UnitVars, DedupVars, arg_email_body,
                   arg_external_emails, tagger_answer, returned, block_calls, sig_pc>>

\* the body of the loop of lines 322-410 for one message: a fetch that
\* raises is logged (lines 408-410) and a fetch whose status is not OK is
\* passed over (lines 327-328), and the loop goes on
ProcessMessage ==
    /\ run_pc = "loop"
    /\ msg_index <= Len(mailbox)
    /\ IF mailbox[msg_index].fetch_raises \/ ~mailbox[msg_index].fetched
       THEN UNCHANGED <<processed_contacts, imap_stats, cp_stats>>
       ELSE Read(mailbox[msg_index], extract_email_body(mailbox[msg_index]))
    /\ msg_index' = msg_index + 1
    /\ UNCHANGED <<mailbox, run_result, run_pc, ConfigVars, PhoneVars, LocateVars, UnitVars, DedupVars, arg_email_body,
                   arg_external_emails, tagger_answer, returned, block_calls, sig_pc>>

\* lines 409-426: the final deduplication and the return
Deduplicated(unique_final) ==
    /\ run_result' = unique_final
    /\ imap_stats' =
          IF processed_contacts # <<>>
          THEN [imap_stats EXCEPT
                   !.duplicates_removed = @ + Len(processed_contacts) - Len(unique_final),
                   !.valid_contacts = Len(unique_final)]
          ELSE imap_stats

Finish ==
    /\ run_pc = "loop"
    /\ msg_index > Len(mailbox)
    /\ Deduplicated(deduplicate_contacts(processed_contacts))
    /\ run_pc' = "done"
    /\ UNCHANGED <<mailbox, msg_index, processed_contacts, ConfigVars, PhoneVars, LocateVars, UnitVars, DedupVars, SigVars>>

RunNext == Connect \/ ConnectFails \/ ProcessMessage \/ Finish

SpecRun == RunInit /\ [][RunNext]_vars

(***************************************************************************)
(* Properties of process_emails                                            *)
(***************************************************************************)
\* C2: after process_emails has run over any sequence of messages, every
\* contact in the returned list has a confidence_score of 0.5 or more and an
\* email that is not internal: not blacklisted and not in an internal domain,
\* for the test of the contact processor and for the test of the IMAP client.
C2_OutputIsHighQualityExternal ==
    run_pc = "done" =>
        \A k \in 1..Len(run_result) :
            /\ run_result[k].confidence_score >= 5
            /\ ~is_internal_email(run_result[k].email)
            /\ ~imap_is_internal_email(run_result[k].email)

\* C2 witness: a run has returned a contact after it rejected a contact with
\* a score under 0.5 from another message.
C2_Witness ==
    /\ run_pc = "done"
    /\ run_result # <<>>
    /\ imap_stats.low_quality_rejected > 0
    /\ imap_stats.total_emails >= 2

\* the contacts of a list are the first ones of another
is_prefix_of(earlier, later) ==
    /\ Len(earlier) <= Len(later)
    /\ SubSeq(later, 1, Len(earlier)) = earlier

\* the message fails: its fetch raises or has a status that is not OK, or
\* its body is empty, or the extractors raise on its signature
message_fails(msg) ==
    \/ msg.fetch_raises
    \/ ~msg.fetched
    \/ extract_email_body(msg) = <<>>
    \/ extract_entities_raises(extract_email_body(msg))

\* C11: in process_emails a failure on one message (a fetch that fails, an
\* empty body, an exception while parsing or extracting) never aborts the
\* batch: the loop goes on to the next message and keeps the contacts it
\* has accepted, a failing message adds none, the run returns only after the
\* last message, and every contact accepted from a message has its key in
\* the returned list.
C11_FailureDoesNotAbort ==
    [][/\ (run_pc = "loop" /\ msg_index <= Len(mailbox)) =>
            /\ run_pc' = "loop"
            /\ msg_index' = msg_index + 1
            /\ is_prefix_of(processed_contacts, processed_contacts')
            /\ message_fails(mailbox[msg_index]) => processed_contacts' = processed_contacts
       /\ run_pc' = "done" =>
            /\ msg_index' = Len(mailbox) + 1
            /\ \A k \in 1..Len(processed_contacts') :
                  \E j \in 1..Len(run_result') :
                      dedup_key(run_result'[j]) = dedup_key(processed_contacts'[k])]_vars

\* C11 witness: the extractors raised on the signature of the first message,
\* which was counted as a failed extraction, and the run returned the
\* contact of the second message.
C11_Witness ==
    /\ run_pc = "done"
    /\ Len(mailbox) = 2
    /\ extract_entities_raises(extract_email_body(mailbox[1]))
    /\ imap_stats.failed_extractions = 1
    /\ ~message_fails(mailbox[2])
    /\ run_result # <<>>

\* C12: the phones list of every Contact returned by process_email_signature
\* has no two entries with the same digits: a number found both by
\* _extract_phones_improved and by SignatureParser.extract_phones in
\* different textual formats appears once.
C12_PhonesUniqueByDigits ==
    sig_pc = "returned" =>
        \A k \in 1..Len(returned.value) :
            \A i, j \in 1..Len(returned.value[k].phones) :
                digits_of(returned.value[k].phones[i]) = digits_of(returned.value[k].phones[j])
                    => i = j

(***************************************************************************)
(* One call of a phone extractor                                           *)
(***************************************************************************)
\* n characters that are no part of a number or of a keyword
filler(n) == [k \in 1..n |-> "."]

ExtensionFive == <<"~d","~o","~b","."," ","5">>

\* what comes before the number: nothing, the prefix of a telephone, an
\* extension 31 and 25 characters before the number, the mobile number of
\* the numbers with an extension
PhonePrefixes ==
    {<<>>,
     <<"~T","~e","~l",".">>,
     ExtensionFive \o filler(31),
     ExtensionFive \o filler(25),
     <<"+","7"," ","(","9","1","3",")"," ","7","0","8","-","1","2","-","9","8"," ","~d","~o","~b","."," ","1","2",";"," ">>}

\* the numbers: a mobile number written without separators, numbers with the
\* codes 913, 911 and 935, a city number of Moscow, a number with a code of
\* four digits in parentheses, one with a code of five digits, one written
\* with 8 and hyphens, a number that is not valid
PhoneNumbers ==
    {<<"+","7","9","7","7","8","8","4","2","7","7","9">>,
     <<"+","7"," ","(","9","1","3",")"," ","7","0","8","-","1","2","-","9","8">>,
     <<"+","7"," ","(","9","1","1",")"," ","1","2","3","-","4","5","-","6","7">>,
     <<"+","7"," ","(","9","3","5",")"," ","1","2","3","-","4","5","-","6","7">>,
     <<"+","7"," ","(","4","9","5",")"," ","9","3","3"," ","7","1"," ","4","7">>,
     <<"(","3","9","5","2",")","7","8","-","2","5","-","7","9">>,
     <<"+","7","(","3","8","8","2","2",")","6","-","4","3","-","6","3">>,
     <<"8","-","3","8","5","2","-","5","0","-","4","0","-","3","8">>,
     <<"+","7"," ","(","0","1","2",")"," ","3","4","5","-","6","7","-","8","9">>}

\* what comes after the number: nothing, an extension after a comma, an
\* extension in parentheses, a variant of the last digits, a second short
\* number, an extension 44, 45 and 50 characters after the number, a number
\* in scientific notation and an internal number
PhoneSuffixes ==
    {<<>>,
     <<",", " ", "~d","~o","~b","."," ","1","2","1">>,
     <<" ", "(", "~d","~o","~b","."," ","2","0","3","6",")">>,
     <<" ", "(", "4", "8", ")">>,
     <<",", " ", "6", "-", "4", "3", "-", "6", "5">>,
     filler(44) \o ExtensionFive,
     filler(45) \o ExtensionFive,
     filler(50) \o ExtensionFive,
     <<" ", "1", ".", "5", "e", "3", " ", "~v", "~n", ".", "7">>}

PhoneTexts ==
    {prefix \o number \o suffix :
        prefix \in PhonePrefixes, number \in PhoneNumbers, suffix \in PhoneSuffixes}

PhoneInit ==
    /\ NoConfig
    /\ DedupIdle
    /\ SigIdle
    /\ RunIdle
    /\ LocateIdle
    /\ UnitsIdle
    /\ phone_text \in PhoneTexts
    /\ phone_match = <<>>
    /\ phone_found = <<>>
    /\ phone_pc = "ready"

\* SignatureParser.extract_phones is called with the text
ExtractPhones ==
    /\ phone_pc = "ready"
    /\ phone_found' = extract_phones(phone_text)
    /\ phone_pc' = "parser"
    /\ UNCHANGED <<phone_text, phone_match, ConfigVars, DedupVars, SigVars, RunVars, LocateVars, UnitVars>>

\* PhoneExtractorPerfect.extract_phones_only is called with the text
ExtractPhonesOnly ==
    /\ phone_pc = "ready"
    /\ phone_found' = extract_phones_only(phone_text)
    /\ phone_pc' = "perfect"
    /\ UNCHANGED <<phone_text, phone_match, ConfigVars, DedupVars, SigVars, RunVars, LocateVars, UnitVars>>

\* lines 54-68 of extract_phones_only: _process_single_phone is called for a
\* valid number the matcher found, with its local context
Processed(text, m) ==
    /\ is_valid_number(number_of(text, m))
    /\ phone_match' = m
    /\ phone_found' = process_single_phone(number_of(text, m), local_context_of(text, m))

ProcessSinglePhoneIn(text, matches) == \E k \in 1..Len(matches) : Processed(text, matches[k])

ProcessSinglePhone ==
    /\ phone_pc = "ready"
    /\ ProcessSinglePhoneIn(prepared_text(phone_text), PhoneNumberMatcher(prepared_text(phone_text)))
    /\ phone_pc' = "single"
    /\ UNCHANGED <<phone_text, ConfigVars, DedupVars, SigVars, RunVars, LocateVars, UnitVars>>

\* PhoneExtractorPerfect._extract_comma_separated_phones is called with the
\* text
ExtractCommaSeparatedPhones ==
    /\ phone_pc = "ready"
    /\ phone_found' = extract_comma_separated_phones(phone_text)
    /\ phone_pc' = "comma"
    /\ UNCHANGED <<phone_text, phone_match, ConfigVars, DedupVars, SigVars, RunVars, LocateVars, UnitVars>>

\* PhoneExtractorFinalFixed._extract_comma_separated_phones is called with
\* the text
ExtractCommaSeparatedPhonesArchived ==
    /\ phone_pc = "ready"
    /\ phone_found' = extract_comma_separated_phones_archived(phone_text)
    /\ phone_pc' = "comma_archived"
    /\ UNCHANGED <<phone_text, phone_match, ConfigVars, DedupVars, SigVars, RunVars, LocateVars, UnitVars>>

PhoneNext ==
    \/ ExtractPhones
    \/ ExtractPhonesOnly
    \/ ProcessSinglePhone
    \/ ExtractCommaSeparatedPhones
    \/ ExtractCommaSeparatedPhonesArchived

SpecPhone == PhoneInit /\ [][PhoneNext]_vars

(***************************************************************************)
(* Properties of SignatureParser.extract_phones                            *)
(***************************************************************************)
\* what the matches of one template are formatted to, in order
RECURSIVE formatted_of(_, _, _)
formatted_of(text, matches, phone_type) ==
    IF matches = <<>> THEN <<>>
    ELSE <<format_phone_match(text, Head(matches), phone_type)>>
         \o formatted_of(text, Tail(matches), phone_type)

\* what the matches of template k in the text are formatted to
formatted_matches(text, k) ==
    formatted_of(text, re_finditer(phone_patterns[k].pattern, text), phone_patterns[k].type)

\* the formatted matches of the templates from k on
RECURSIVE formatted_from(_, _)
formatted_from(text, k) ==
    IF k > Len(phone_patterns) THEN <<>>
    ELSE formatted_matches(text, k) \o formatted_from(text, k + 1)

\* every formatted match of every template, in the order of the templates
all_formatted_matches(text) == SelectSeq(formatted_from(text, 1), LAMBDA f : f # <<>>)

TelExample ==
    <<"~T","~e","~l",".","(","3","9","5","2",")","7","8","-","2","5","-","7","9",",",
      " ","~d","~o","~b","."," ","1","2","1">>

TelExampleResult ==
    << <<"+","7"," ","(","3","9","5","2",")"," ","7","8","-","2","5","-","7","9"," ",
         "(","~d","~o","~b","."," ","1","2","1",")">> >>

\* the entries of found answer the formatted matches: no base number twice,
\* every matched base number present, with an extension when a match of it
\* has one
base_numbers_once(found, formatted) ==
    /\ \A i, j \in 1..Len(found) :
          extract_base_number(found[i]) = extract_base_number(found[j]) => i = j
    /\ \A k \in 1..Len(formatted) : \E i \in 1..Len(found) :
          /\ extract_base_number(found[i]) = extract_base_number(formatted[k])
          /\ contains(formatted[k], ExtMark) => contains(found[i], ExtMark)
    /\ \A i \in 1..Len(found) : \E k \in 1..Len(formatted) : found[i] = formatted[k]

\* C13: extract_phones returns every base number that a template matches
\* exactly once, the entry carries an extension when one of the matches of
\* the base number does, and "Tel.(3952)78-25-79, dob. 121" gives exactly
\* ["+7 (3952) 78-25-79 (dob. 121)"]
C13_BaseNumberOnce ==
    phone_pc = "parser" =>
        /\ base_numbers_once(phone_found, all_formatted_matches(phone_text))
        /\ phone_text = TelExample => phone_found = TelExampleResult

\* C13: extract_phones has returned for a text in which two templates match
\* the same base number, the first without an extension and a later one
\* with an extension, and the one entry has the extension
C13_Witness ==
    /\ phone_pc = "parser"
    /\ Len(phone_found) = 1
    /\ contains(phone_found[1], ExtMark)
    /\ \E k, l \in 1..Len(phone_patterns) :
          /\ k < l
          /\ \E f \in Range(formatted_matches(phone_text, k)) :
                f # <<>> /\ ~contains(f, ExtMark)
          /\ \E f \in Range(formatted_matches(phone_text, l)) : contains(f, ExtMark)

(***************************************************************************)
(* Properties of PhoneExtractorPerfect                                     *)
(***************************************************************************)
\* the first and the last position (counted from 1) of the local context of
\* the match m
window_first(text, m) == Max(0, (m.start - 1) - WindowBefore) + 1

window_last(text, m) == Min(Len(text), (m.end - 1) + WindowAfter)

\* some extension keyword with its digits is found in the text
extension_in(text) ==
    \E k \in 1..Len(extension_patterns) : re_finditer(extension_patterns[k], text) # <<>>

\* some extension keyword found in the text has a character inside the
\* local context of the match m
extension_in_window(text, m) ==
    \E k \in 1..Len(extension_patterns) :
        \E e \in Range(re_finditer(extension_patterns[k], text)) :
            /\ e.start <= window_last(text, m)
            /\ e.end - 1 >= window_first(text, m)

has_extension(phones) == \E i \in 1..Len(phones) : contains(phones[i], ExtMark)

MobileExample == <<"+","7","9","7","7","8","8","4","2","7","7","9">>

MobileExampleResult ==
    << <<"+","7"," ","(","9","7","7",")"," ","8","8","4","-","2","7","-","7","9">> >>

\* C14: _process_single_phone, called by extract_phones_only with the local
\* context of a number, attaches an extension only when an extension
\* keyword of the text has a character between 30 characters before the
\* start and 50 characters after the end of the number, and "+79778842779"
\* with "dob. 5" 50 characters after it, or 31 characters before it, gives
\* ["+7 (977) 884-27-79"]
C14_ExtensionOnlyInWindow ==
    /\ (phone_pc = "single" /\ has_extension(phone_found)) =>
            extension_in_window(prepared_text(phone_text), phone_match)
    /\ (/\ phone_pc = "perfect"
        /\ phone_text \in {MobileExample \o filler(50) \o ExtensionFive,
                            ExtensionFive \o filler(31) \o MobileExample}) =>
            phone_found = MobileExampleResult

\* C14: _process_single_phone has returned a number that is not mobile
\* without extension for a text that has an extension keyword outside the
\* window of the number only
C14_Witness ==
    /\ phone_pc = "single"
    /\ extension_in(prepared_text(phone_text))
    /\ ~extension_in_window(prepared_text(phone_text), phone_match)
    /\ ~is_mobile_phone(phone_found[1])
    /\ ~has_extension(phone_found)

(***************************************************************************)
(* Properties of the participants of a message in process_emails           *)
(***************************************************************************)
\* the message is fetched and has a body
message_read(msg) == ~msg.fetch_raises /\ msg.fetched

\* the message is read and none of its participants is external
only_internal(msg) ==
    message_read(msg) /\ external_participants(msg, extract_email_body(msg)) = {}

\* the counters of the run after a message of the type of msg is skipped
stats_after_skip(stats, msg) ==
    [stats_after_type(stats, analyze_email_type(msg.subject, extract_email_body(msg)))
        EXCEPT !.internal_emails = @ + 1]

\* C15: a message none of whose participants is external is skipped by
\* process_emails: the contacts and the counters of the contact processor
\* stay as they are, the message is counted in internal_emails and in the
\* counter of its type and in no other counter (external_emails included),
\* and the loop goes on
C15_InternalMessageSkipped ==
    [][(run_pc = "loop" /\ msg_index <= Len(mailbox) /\ only_internal(mailbox[msg_index])) =>
          /\ processed_contacts' = processed_contacts
          /\ cp_stats' = cp_stats
          /\ imap_stats' = stats_after_skip(imap_stats, mailbox[msg_index])
          /\ imap_stats'.external_emails = imap_stats.external_emails
          /\ msg_index' = msg_index + 1]_vars

\* C15: a run of two messages has returned, the first with internal
\* participants only and counted as internal, the second with an external
\* participant and a contact in the result
C15_Witness ==
    /\ run_pc = "done"
    /\ Len(mailbox) = 2
    /\ only_internal(mailbox[1])
    /\ ~only_internal(mailbox[2])
    /\ imap_stats.internal_emails = 1
    /\ imap_stats.external_emails = 1
    /\ run_result # <<>>

\* the external addresses among the header addresses of the message (lines
\* 217-229)
header_external(msg) ==
    external_of([k \in 1..Len(msg.participants) |-> lower(msg.participants[k])])

\* C16: for every message the loop has read, when at least one header
\* address is external, the external participants of the message are its
\* external header addresses and no address of the signature region
C16_SignatureEmailsOnlyAsFallback ==
    \A k \in 1..(msg_index - 1) :
        (message_read(mailbox[k]) /\ header_external(mailbox[k]) # {}) =>
            external_participants(mailbox[k], extract_email_body(mailbox[k]))
                = header_external(mailbox[k])

(***************************************************************************)
(* One call of ContactProcessor._extract_clean_signatures                  *)
(***************************************************************************)
MaxLocateLines == 3

FromLine == <<"F","r","o","m",":"," ","i","v","a","n","@","e","x","t",".","c","o","m">>

\* the lines a body ends with: a line with a signature marker, a chain
\* header, a line with a phone, a line with a company, a short line
LocateLines == {SigLines[3], FromLine, SigLines[7], SigLines[6], <<"o","k">>}

\* n lines of text, no two the same
text_lines(n) == [k \in 1..n |-> <<"l","i","n","e"," ", LowerLatin[k]>>]

\* n lines without text
blank_lines(n) == [k \in 1..n |-> <<>>]

\* the lines a body starts with
LocateStarts == {<<>>, text_lines(6), text_lines(14), blank_lines(6), blank_lines(7)}

\* the bodies: with and without marker, of up to 8 lines, of 9 to 15 lines
\* and of more than 15 lines
LocateBodies ==
    {join(start \o ending, Newline) :
        start \in LocateStarts,
        ending \in UNION {[1..n -> LocateLines] : n \in 1..MaxLocateLines}}

LocateInit ==
    /\ NoConfig \/ SampleConfig
    /\ DedupIdle
    /\ SigIdle
    /\ RunIdle
    /\ PhoneIdle
    /\ UnitsIdle
    /\ located_body \in LocateBodies
    /\ located_blocks = <<>>
    /\ locate_pc = "ready"

\* ContactProcessor._extract_clean_signatures is called with the body
ExtractCleanSignatures ==
    /\ locate_pc = "ready"
    /\ located_blocks' = extract_clean_signatures(located_body)
    /\ locate_pc' = "returned"
    /\ UNCHANGED <<located_body, ConfigVars, DedupVars, SigVars, RunVars, PhoneVars, UnitVars>>

LocateNext == ExtractCleanSignatures

SpecLocate == LocateInit /\ [][LocateNext]_vars

(***************************************************************************)
(* Properties of ContactProcessor._extract_clean_signatures                *)
(***************************************************************************)
\* the line is a chain header (line 296)
is_chain_header(line) == re_match(HeaderLine, strip(lower(line))).ok

\* wherever the line is in the body, a chain header is before it
after_chain_header_only(lines, line) ==
    \A k \in 1..Len(lines) :
        lines[k] = line => \E j \in 1..(k - 1) : is_chain_header(lines[j])

\* C17: no line of a block returned by _extract_clean_signatures is a line
\* that the body has after a chain header only (from:, sent:, subject:, ot
\* kogo:, otpravleno:), be it a line of the window of a marker or the line
\* of a marker
C17_AfterChainHeaderExcluded ==
    locate_pc = "returned" =>
        \A b \in 1..Len(located_blocks) :
            \A line \in Range(split_on(located_blocks[b], "\n")) :
                ~after_chain_header_only(split_on(located_body, "\n"), line)

no_marker_line(lines) == \A k \in 1..Len(lines) : ~is_marker_line(lines[k])

\* the last 15 lines after the filter
last_lines_filtered(lines) ==
    deep_filter_internal_markers(join(SubSeq(lines, Max(1, Len(lines) - 14), Len(lines)),
                                      Newline))

\* the one block of the last 15 lines when the filtered text has more than
\* 20 characters, and no block otherwise
one_block_or_none(blocks, clean_block) ==
    IF Len(strip(clean_block)) > 20 THEN blocks = <<clean_block>> ELSE blocks = <<>>

\* C18: when no line of the body has a signature marker,
\* _extract_clean_signatures returns the last 15 lines after filtering as
\* its one block if the filtered text is longer than 20 characters and the
\* empty list otherwise, for a body of any number of lines
C18_FallbackAnyLength ==
    (locate_pc = "returned" /\ no_marker_line(split_on(located_body, "\n"))) =>
        one_block_or_none(located_blocks, last_lines_filtered(split_on(located_body, "\n")))

\* C18, amended: when no line of the body has a signature marker and the
\* body has more than 8 lines, _extract_clean_signatures returns the last 15
\* lines after filtering as its one block if the filtered text is longer
\* than 20 characters and the empty list otherwise; for a body of 8 lines
\* or fewer without marker it returns the empty list
C18_FallbackOverEightLines ==
    (locate_pc = "returned" /\ no_marker_line(split_on(located_body, "\n"))) =>
        IF Len(split_on(located_body, "\n")) > 8
        THEN one_block_or_none(located_blocks,
                               last_lines_filtered(split_on(located_body, "\n")))
        ELSE located_blocks = <<>>

\* C18: _extract_clean_signatures has returned one block for a body of more
\* than 15 lines without marker, and the block is shorter than the body
C18_Witness ==
    /\ locate_pc = "returned"
    /\ no_marker_line(split_on(located_body, "\n"))
    /\ Len(split_on(located_body, "\n")) > 15
    /\ Len(located_blocks) = 1
    /\ Len(split_on(located_blocks[1], "\n")) = 15

(***************************************************************************)
(* Properties of the mobile numbers and of the numbers written as a pair   *)
(***************************************************************************)
\* C19: every number _process_single_phone returns whose area code is in
\* 910-919, 920-939, 950-969, 980-989 or is 999 is mobile for
\* _is_mobile_phone and has no extension
C19_MobileRangesCovered ==
    phone_pc = "single" =>
        \A i \in 1..Len(phone_found) :
            is_mobile_phone_by_ranges(phone_found[i]) =>
                /\ is_mobile_phone(phone_found[i])
                /\ ~contains(phone_found[i], ExtMark)

PairExample ==
    <<"+","7","(","3","8","8","2","2",")","6","-","4","3","-","6","3",",",
      " ","6","-","4","3","-","6","5">>

PairExampleResult ==
    << <<"+","7"," ","(","3","8","8",")"," ","2","2","6","-","4","3","-","6","3">>,
       <<"+","7"," ","(","3","8","8",")"," ","2","2","6","-","4","3","-","6","5">> >>

\* the digits of the number after the area code
subscriber_digits(phone) == SubSeq(digits_of(phone), 5, Len(digits_of(phone)))

\* C20: for a pair written with an area code of 5 digits both numbers that
\* _extract_comma_separated_phones returns, in PhoneExtractorPerfect and in
\* PhoneExtractorFinalFixed, have the same area code of 3 digits and a
\* subscriber number that starts with the other 2 digits of the code, and
\* "+7(38822)6-43-63, 6-43-65" gives "+7 (388) 226-43-63" and
\* "+7 (388) 226-43-65"
C20_SharedPrefixOnBoth ==
    (phone_pc \in {"comma", "comma_archived"} /\ phone_text = PairExample) =>
        /\ phone_found = PairExampleResult
        /\ \A i \in 1..Len(phone_found) :
              SubSeq(subscriber_digits(phone_found[i]), 1, 2) = <<"2", "2">>

(***************************************************************************)
(* FixedPositionExtractor (position_extractor.py): the contextual          *)
(* expansion of a job title.  Offsets into a string are Python's: the      *)
(* first character has offset 0, and -1 stands for "not found" (str.find)  *)
(* and for the None of _expand_left and _expand_right, whose other results *)
(* are offsets.                                                            *)
(***************************************************************************)
\* s[start:end] for offsets 0 <= start
py_slice(s, start, end) == SubSeq(s, start + 1, Min(end, Len(s)))

\* sub occurs in s at offset k
occurs_at(s, sub, k) ==
    k + Len(sub) <= Len(s) /\ \A j \in 1..Len(sub) : s[k + j] = sub[j]

\* s.find(sub)
str_find(s, sub) ==
    LET hits == {k \in 0..(Len(s) - Len(sub)) : occurs_at(s, sub, k)}
    IN  IF hits = {} THEN -1 ELSE CHOOSE k \in hits : \A j \in hits : k <= j

\* s.rfind(sub)
str_rfind(s, sub) ==
    LET hits == {k \in 0..(Len(s) - Len(sub)) : occurs_at(s, sub, k)}
    IN  IF hits = {} THEN -1 ELSE CHOOSE k \in hits : \A j \in hits : j <= k

\* FixedPositionExtractor.garbage_patterns
garbage_patterns ==
    <<Cat(<<<<"bol">>, Alt(<<Cat(<<Rep(Cls(Range(LowerCyr)), 1, 15),
          Lit(<<"~i","~ch">>), <<"eol">>>>), Cat(<<Rep(Cls(Range(LowerCyr)),
          1, 15), Lit(<<"~n","~a">>), <<"eol">>>>)>>)>>),
      Alt(<<Ch("@"), Lit(<<"m","a","i","l","t","o",":">>),
          Lit(<<".","r","u">>), Lit(<<".","c","o","m">>),
          Lit(<<"h","t","t","p">>), Lit(<<"w","w","w">>)>>),
      Alt(<<Rep(Cls(Digits), 4, 4), Cat(<<Ch("+"), Rep(Cls(Digits), 2, 2),
          Ch(":"), Rep(Cls(Digits), 2, 2)>>), Cat(<<<<"bol">>,
          Plus(Cls(Digits)), <<"eol">>>>)>>),
      Cat(<<<<"bol">>, Alt(<<Cat(<<Grp("g1", Alt(<<Lit(<<"~o","~t">>),
          Lit(<<"~k","~o","~m","~u">>), Lit(<<"r","e">>),
          Lit(<<"f","w","d">>)>>)), Cls(WhiteSpace \cup {",",":"})>>),
          Plus(Ch(">"))>>)>>),
      Alt(<<Lit(<<"~p","~o","~n","~e","~d","~e","~l","~sf","~n","~i","~k">>),
          Lit(<<"~v","~t","~o","~r","~n","~i","~k">>),
          Lit(<<"~s","~r","~e","~d","~a">>),
          Lit(<<"~ch","~e","~t","~v","~e","~r","~g">>),
          Lit(<<"~p","~ya","~t","~n","~i","~c","~a">>),
          Lit(<<"~s","~u","~b","~b","~o","~t","~a">>),
          Lit(<<"~v","~o","~s","~k","~r","~e","~s","~e","~n","~sf","~e">>)>>),
      Alt(<<Lit(<<"~ya","~n","~v","~a","~r","~ya">>),
          Lit(<<"~f","~e","~v","~r","~a","~l","~ya">>),
          Lit(<<"~m","~a","~r","~t","~a">>),
          Lit(<<"~a","~p","~r","~e","~l","~ya">>), Lit(<<"~m","~a","~ya">>),
          Lit(<<"~i","~yu","~n","~ya">>), Lit(<<"~i","~yu","~l","~ya">>),
          Lit(<<"~a","~v","~g","~u","~s","~t","~a">>),
          Lit(<<"~s","~e","~n","~t","~ya","~b","~r","~ya">>),
          Lit(<<"~o","~k","~t","~ya","~b","~r","~ya">>),
          Lit(<<"~n","~o","~ya","~b","~r","~ya">>),
          Lit(<<"~d","~e","~k","~a","~b","~r","~ya">>)>>)>>

\* the greetings _is_garbage_line rejects
garbage_lines ==
    {<<"~s"," ","~u","~v","~a","~zh","~e","~n","~i","~e","~m">>, <<"~d","~o","~b","~r","~y","~j"," ","~d","~e","~n","~sf">>, <<"~s","~p","~a","~s","~i","~b","~o">>}

\* FixedPositionExtractor._is_garbage_line
is_garbage_line(line) ==
    LET line_clean == lower(strip(line))
    IN  \/ line = <<>>
        \/ \E k \in 1..Len(garbage_patterns) : re_search(garbage_patterns[k], line_clean).ok
        \/ Len(line_clean) < 3
        \/ line_clean \in garbage_lines

\* the job indicators of _method_contextual_expansion
job_indicators ==
    <<<<"~d","~i","~r","~e","~k","~t","~o","~r">>,
      <<"~r","~u","~k","~o","~v","~o","~d","~i","~t","~e","~l","~sf">>,
      <<"~m","~e","~n","~e","~d","~zh","~e","~r">>,
      <<"~s","~p","~e","~c","~i","~a","~l","~i","~s","~t">>,
      <<"~n","~a","~ch","~a","~l","~sf","~n","~i","~k">>,
      <<"~z","~a","~v","~e","~d","~u","~yu","~sch","~i","~j">>,
      <<"~p","~r","~e","~d","~s","~t","~a","~v","~i","~t","~e","~l","~sf">>,
      <<"~k","~o","~o","~r","~d","~i","~n","~a","~t","~o","~r">>>>

\* left_modifiers of _expand_job_contextually
left_modifiers ==
    <<<<"~r","~e","~g","~i","~o","~n","~a","~l","~sf","~n","~y","~j">>,
      <<"~v","~e","~d","~u","~sch","~i","~j">>,
      <<"~s","~t","~a","~r","~sh","~i","~j">>,
      <<"~g","~l","~a","~v","~n","~y","~j">>,
      <<"~z","~a","~m","~e","~s","~t","~i","~t","~e","~l","~sf">>,
      <<"~z","~a","~m",".">>,
      <<"~i","~s","~p","~o","~l","~n","~ya","~yu","~sch","~i","~j">>,
      <<"~p","~e","~r","~v","~y","~j">>,
      <<"~k","~o","~m","~m","~e","~r","~ch","~e","~s","~k","~i","~j">>,
      <<"~t","~e","~h","~n","~i","~ch","~e","~s","~k","~i","~j">>>>

\* right_extensions of _expand_job_contextually
right_extensions ==
    <<<<"~p","~o">>,
      <<"~o","~t","~d","~e","~l","~a">>,
      <<"~d","~e","~p","~a","~r","~t","~a","~m","~e","~n","~t","~a">>,
      <<"~g","~r","~u","~p","~p","~y">>,
      <<"~n","~a","~p","~r","~a","~v","~l","~e","~n","~i","~ya">>,
      <<"~s","~n","~a","~b","~zh","~e","~n","~i","~ya">>,
      <<"~p","~r","~o","~d","~a","~zh">>,
      <<"~r","~a","~z","~v","~i","~t","~i","~ya">>,
      <<"~p","~o","~s","~t","~a","~v","~o","~k">>,
      <<"~z","~a","~k","~u","~p","~o","~k">>,
      <<"~o","~b","~o","~r","~u","~d","~o","~v","~a","~n","~i","~ya">>,
      <<"~p","~r","~o","~e","~k","~t","~a","~m">>,
      <<"~t","~e","~n","~d","~e","~r","~a","~m">>,
      <<"~k","~l","~i","~e","~n","~t","~a","~m","~i">>,
      <<"~t","~e","~h","~n","~o","~l","~o","~g","~i","~j">>,
      <<"~m","~i","~k","~r","~o","~b","~i","~o","~l","~o","~g","~i","~i">>,
      <<"~b","~i","~o","~t","~e","~h","~n","~o","~l","~o","~g","~i","~j">>>>

\* the loop of _expand_left from the k-th modifier on: the first modifier of
\* the list that occurs in the 50 characters before start_pos decides
RECURSIVE expand_left_from(_, _, _, _)
expand_left_from(context, start_pos, modifiers, k) ==
    IF k > Len(modifiers) THEN -1
    ELSE LET search_start == Max(0, start_pos - 50)
             left_context == lower(py_slice(context, search_start, start_pos))
             modifier_pos == str_rfind(left_context, modifiers[k])
         IN  IF modifier_pos # -1 /\ search_start + modifier_pos < start_pos
             THEN search_start + modifier_pos
             ELSE expand_left_from(context, start_pos, modifiers, k + 1)

\* FixedPositionExtractor._expand_left
expand_left(context, start_pos, modifiers) ==
    expand_left_from(context, start_pos, modifiers, 1)

\* the offset after the white space that starts at offset pos
RECURSIVE after_spaces(_, _)
after_spaces(context, pos) ==
    IF pos < Len(context) /\ IsSpace(context[pos + 1])
    THEN after_spaces(context, pos + 1) ELSE pos

\* the offset after the letters and hyphens that start at offset pos
RECURSIVE after_word(_, _)
after_word(context, pos) ==
    IF pos < Len(context) /\ context[pos + 1] \in Letters \cup {"-"}
    THEN after_word(context, pos + 1) ELSE pos

\* the while loop of _expand_right: the value of current_pos when it ends
RECURSIVE right_scan(_, _, _)
right_scan(context, current_pos, extensions) ==
    IF current_pos >= Len(context) THEN current_pos
    ELSE LET word_start == after_spaces(context, current_pos)
             word_end == after_word(context, word_start)
         IN  IF word_start >= Len(context) THEN word_start
             ELSE IF word_start < word_end
                     /\ lower(py_slice(context, word_start, word_end)) \in Range(extensions)
                  THEN right_scan(context, word_end, extensions)
                  ELSE word_end

\* FixedPositionExtractor._expand_right
expand_right(context, end_pos, extensions) ==
    LET current_pos == right_scan(context, end_pos, extensions)
    IN  IF current_pos > end_pos THEN current_pos ELSE -1

\* the lines of a title that are kept
job_parts_of(lines) ==
    LET kept(line) == strip(line) # <<>> /\ ~is_garbage_line(strip(line))
        parts == SelectSeq(lines, kept)
    IN  [k \in 1..Len(parts) |-> strip(parts[k])]

\* FixedPositionExtractor._handle_multiline_in_expansion
handle_multiline_in_expansion(context, start, end) ==
    LET lines == split_on(py_slice(context, start, end), "\n")
    IN  IF Len(lines) > 1 /\ job_parts_of(lines) # <<>>
        THEN join(job_parts_of(lines), <<" ">>)
        ELSE strip(py_slice(context, start, end))

\* re.sub(r'^[^\w\u0400-\u04FF]+', '', s)
RECURSIVE without_leading(_)
without_leading(s) ==
    IF s # <<>> /\ Head(s) \notin WordChars THEN without_leading(Tail(s)) ELSE s

\* the characters the second substitution of _clean_and_complete_position
\* leaves at the end
TitleEndChars == WordChars \cup WhiteSpace \cup {"-", "(", ")", "~lq", "~rq", "\""}

\* re.sub(r'[^\w\u0400-\u04FF\s\-()<<>>""]+$', '', s)
RECURSIVE without_trailing(_)
without_trailing(s) ==
    IF s # <<>> /\ s[Len(s)] \notin TitleEndChars
    THEN without_trailing(SubSeq(s, 1, Len(s) - 1)) ELSE s

\* the pairs of quotation marks that are removed from around a title
quote_pairs == <<<<"\"", "\"">>, <<"~lq", "~rq">>, <<"~bq", "\"">>>>

\* the loop over quote_pairs from the k-th pair on
RECURSIVE unquoted_from(_, _)
unquoted_from(cleaned, k) ==
    IF k > Len(quote_pairs) THEN cleaned
    ELSE IF cleaned # <<>> /\ Head(cleaned) = quote_pairs[k][1]
            /\ cleaned[Len(cleaned)] = quote_pairs[k][2]
         THEN unquoted_from(strip(SubSeq(cleaned, 2, Len(cleaned) - 1)), k + 1)
         ELSE unquoted_from(cleaned, k + 1)

\* cleaned[0].upper() + cleaned[1:] if the first character is a small letter
first_upper(cleaned) ==
    IF cleaned # <<>> /\ Head(cleaned) \in LowerLetters
    THEN <<upper_char(Head(cleaned))>> \o Tail(cleaned) ELSE cleaned

\* FixedPositionExtractor._clean_and_complete_position
clean_and_complete_position(raw_position) ==
    IF raw_position = <<>> THEN PyNone
    ELSE PyStr(strip(first_upper(unquoted_from(
             without_trailing(without_leading(collapse_whitespace(strip(raw_position)))), 1))))

\* start of the title: the offset _expand_left returns, if it returns one
start_of(base_pos, expanded_left) ==
    IF expanded_left # -1 THEN expanded_left ELSE base_pos

\* end of the title: the offset _expand_right returns, if it returns one
end_of(end, expanded_right) ==
    IF expanded_right # -1 THEN expanded_right ELSE end

\* FixedPositionExtractor._expand_job_contextually
expand_job_contextually(context, base_indicator) ==
    LET base_pos == str_find(lower(context), lower(base_indicator))
        start == start_of(base_pos, expand_left(context, base_pos, left_modifiers))
        end == end_of(base_pos + Len(base_indicator),
                      expand_right(context, base_pos + Len(base_indicator), right_extensions))
    IN  IF base_pos = -1 THEN PyNone
        ELSE clean_and_complete_position(handle_multiline_in_expansion(context, start, end))

(***************************************************************************)
(* Calls of FixedPositionExtractor._expand_job_contextually                *)
(***************************************************************************)
MaxExpandWords == 3

\* the words a context is made of: a modifier, a word of neither dictionary,
\* two title keywords, two continuations and another word of neither
\* dictionary
ExpandWords ==
    {<<"~g","~l","~a","~v","~n","~y","~j">>,
     <<"~i","~n","~zh","~e","~n","~e","~r">>,
     <<"~d","~i","~r","~e","~k","~t","~o","~r">>,
     <<"~M","~e","~n","~e","~d","~zh","~e","~r">>,
     <<"~p","~o">>,
     <<"~p","~r","~o","~d","~a","~zh">>,
     <<"~z","~a","~v","~o","~d","~a">>}

ExpandContexts ==
    {join(words, <<" ">>) : words \in UNION {[1..n -> ExpandWords] : n \in 1..MaxExpandWords}}

ExpandInit ==
    /\ NoConfig
    /\ DedupIdle
    /\ SigIdle
    /\ RunIdle
    /\ PhoneIdle
    /\ LocateIdle
    /\ DateIdle
    /\ ExtractorIdle
    /\ expand_context \in ExpandContexts
    /\ expand_indicator = <<>>
    /\ expand_title = PyNone
    /\ expand_pc = "ready"

\* _method_contextual_expansion calls _expand_job_contextually with one of
\* its job indicators
ExpandJobContextually ==
    /\ expand_pc = "ready"
    /\ \E k \in 1..Len(job_indicators) :
          /\ expand_indicator' = job_indicators[k]
          /\ expand_title' = expand_job_contextually(expand_context, job_indicators[k])
    /\ expand_pc' = "returned"
    /\ UNCHANGED <<expand_context, ConfigVars, DedupVars, SigVars, RunVars, PhoneVars, LocateVars,
                   DateVars, ExtractorVars>>

ExpandNext == ExpandJobContextually

SpecExpand == ExpandInit /\ [][ExpandNext]_vars

(***************************************************************************)
(* Properties of FixedPositionExtractor._expand_job_contextually           *)
(***************************************************************************)
\* the words of the title are modifiers, then the keyword, then continuations
only_dictionary_words(title, keyword) ==
    LET words == split_words(lower(title))
    IN  \E k \in 1..Len(words) :
           /\ words[k] = keyword
           /\ \A j \in 1..(k - 1) : words[j] \in Range(left_modifiers)
           /\ \A j \in (k + 1)..Len(words) : words[j] \in Range(right_extensions)

\* C21: the title _expand_job_contextually returns consists of a run of
\* modifier-dictionary words, the title keyword and a run of
\* continuation-dictionary words, and of no word outside the two dictionaries
C21_OnlyDictionaryWords ==
    (expand_pc = "returned" /\ expand_title.type = "str")
        => only_dictionary_words(expand_title.val, expand_indicator)

(***************************************************************************)
(* Properties of RussianNERExtractor.extract_entities                      *)
(***************************************************************************)
\* the source line of the span is followed by a region qualifier
has_region_qualifier(org_str, text) ==
    first_found(regional_patterns(org_str), line_with(text, org_str), 1) > 0

\* the organization is text of one of the spans
within_a_span(organization, spans) ==
    \E k \in 1..Len(spans) : contains(collapse_whitespace(strip(spans[k])), organization)

\* the organizations extract_entities returns for a block are text of its
\* ORG spans, when no span has a region qualifier after it
organizations_within_spans(block, tagger) ==
    LET spans == spans_in(block, tagger.org)
        organizations == organizations_of(spans, block)
    IN  (\A k \in 1..Len(spans) : ~has_region_qualifier(strip(spans[k]), block))
            => \A k \in 1..Len(organizations) : within_a_span(organizations[k], spans)

\* C22: for an organization span whose source line has no region qualifier
\* after it, the organization extract_entities returns is text of the span
\* (the span, or the span without a trailing city): no text of the source
\* line outside the span is part of it
C22_OrganizationWithinSpan ==
    \A c \in 1..Len(block_calls) :
        ~extract_entities_raises(block_calls[c].block)
            => organizations_within_spans(block_calls[c].block, tagger_answer)

(***************************************************************************)
(* Contacts after their acceptance                                         *)
(***************************************************************************)
\* how often a contact, with all its fields, is an element of a list
count_in(list, contact) == Cardinality({k \in 1..Len(list) : list[k] = contact})

\* every contact of kept is a contact of found with the same fields, and is
\* in kept no more often than in found
is_selection_of(kept, found) ==
    \A k \in 1..Len(kept) : count_in(kept, kept[k]) <= count_in(found, kept[k])

\* the lists process_email_signature can return for a message, one for every
\* order in which the set of its external participants is iterated
contacts_found(msg, body) ==
    {process_email_signature(
         PyStr(body), PyList([k \in 1..Len(result_emails) |-> PyStr(result_emails[k])]),
         msg.tagger).value :
       result_emails \in orders_of(external_participants(msg, body))}

\* the contacts a step of the loop added to processed_contacts
added_contacts(before, after) == SubSeq(after, Len(before) + 1, Len(after))

\* the contacts added for a message are contacts the contact processor
\* returned for it
selected_from_message(added, msg) ==
    \/ added = <<>>
    \/ \E found \in contacts_found(msg, extract_email_body(msg)) : is_selection_of(added, found)

\* C23: deduplication and the confidence filter never modify a Contact:
\* every contact _filter_and_dedupe_contacts returns for a message is one of
\* the contacts process_email_signature returned for it, and every contact
\* deduplicate_contacts returns at the end of the run is one of the collected
\* contacts, with all fields as they were; no other contact appears.
C23_ContactsNeverModified ==
    [][/\ (run_pc = "loop" /\ msg_index <= Len(mailbox)) =>
            selected_from_message(added_contacts(processed_contacts, processed_contacts'),
                                  mailbox[msg_index])
       /\ run_pc' = "done" => is_selection_of(run_result', processed_contacts)]_vars

\* C23 witness: a run has returned contacts after the filter rejected a
\* contact and the final deduplication removed one.
C23_Witness ==
    /\ run_pc = "done"
    /\ run_result # <<>>
    /\ imap_stats.low_quality_rejected > 0
    /\ imap_stats.duplicates_removed > 0
    /\ \E k \in 1..Len(run_result) : run_result[k].issues # <<>>

\* the emails of the contacts of a list, in order
emails_of(found) == [k \in 1..Len(found) |-> found[k].email]

\* the dedup keys of the contacts of a list, in order
keys_of(found) == [k \in 1..Len(found) |-> dedup_key(found[k])]

\* the message was read by the loop
was_read(msg) == msg.fetched /\ ~msg.fetch_raises

\* C24: the email of the contacts of a message is determined by the message
\* alone: whatever the order in which the external participants of the
\* message reach the contact processor, the contacts have the same email and
\* the same dedup key.
C24_EmailDeterminedByMessage ==
    \A k \in 1..(msg_index - 1) :
        was_read(mailbox[k]) =>
            \A first, second \in contacts_found(mailbox[k], extract_email_body(mailbox[k])) :
                /\ emails_of(first) = emails_of(second)
                /\ keys_of(first) = keys_of(second)

(***************************************************************************)
(* The counters of process_emails                                          *)
(***************************************************************************)
\* C25: at the end of every process_emails run the contact counters
\* balance: processed_contacts = valid_contacts + low_quality_rejected +
\* duplicates_removed, every contact the processor returned being counted
\* once, as returned, as rejected for its score, or as a removed duplicate.
C25_CountersBalance ==
    run_pc = "done" =>
        imap_stats.processed_contacts =
            imap_stats.valid_contacts + imap_stats.low_quality_rejected
                + imap_stats.duplicates_removed

(***************************************************************************)
(* The keys of the deduplicated list                                       *)
(***************************************************************************)
\* C26: in the list deduplicate_contacts returns no two contacts that have
\* an email or a fio share the same dedup key, for every input list and
\* every order of its elements.
C26_KeysAreUnique ==
    dd_pc # "start" =>
        \A i, j \in 1..Len(unique_contacts) :
            (/\ has_key_parts(unique_contacts[i])
             /\ has_key_parts(unique_contacts[j])
             /\ dedup_key(unique_contacts[i]) = dedup_key(unique_contacts[j])) => i = j

(***************************************************************************)
(* The date of a message on its way to Contact.email_date                  *)
(* (imap_client.py lines 337-345, contact_processor.py lines 438, 736-748) *)
(* A datetime is the record of its year, month, day, hour and minute.      *)
(* email.utils.parsedate_to_datetime is a library function: a header is    *)
(* the record of whether it parses, of its text and of the datetime it     *)
(* parses to.                                                              *)
(***************************************************************************)
\* timedelta(hours=4) of process_emails
HeaderCorrectionHours == 4

\* timedelta(hours=4) of _correct_email_time
ContactCorrectionHours == 4

is_leap(year) == year % 4 = 0 /\ (year % 100 # 0 \/ year % 400 = 0)

days_in_month(year, month) ==
    IF month = 2 THEN (IF is_leap(year) THEN 29 ELSE 28)
    ELSE IF month \in {4, 6, 9, 11} THEN 30 ELSE 31

\* the fields are those of a datetime
is_date(dt) ==
    /\ dt.year >= 1
    /\ dt.month \in 1..12
    /\ dt.day \in 1..days_in_month(dt.year, dt.month)
    /\ dt.hour \in 0..23
    /\ dt.minute \in 0..59

\* dt + timedelta(days=1)
next_day(dt) ==
    IF dt.day < days_in_month(dt.year, dt.month) THEN [dt EXCEPT !.day = @ + 1]
    ELSE IF dt.month < 12 THEN [dt EXCEPT !.day = 1, !.month = @ + 1]
    ELSE [dt EXCEPT !.day = 1, !.month = 1, !.year = @ + 1]

\* dt + timedelta(hours=hours), for less than 24 hours
plus_hours(dt, hours) ==
    IF dt.hour + hours < 24 THEN [dt EXCEPT !.hour = @ + hours]
    ELSE [next_day(dt) EXCEPT !.hour = dt.hour + hours - 24]

\* 10 to the power n
RECURSIVE power_of_ten(_)
power_of_ten(n) == IF n = 0 THEN 1 ELSE 10 * power_of_ten(n - 1)

\* a number written with width digits, with zeros in front
zero_padded(n, width) ==
    [k \in 1..width |-> DigitOrder[((n \div power_of_ten(width - k)) % 10) + 1]]

\* dt.strftime("%d.%m.%Y %H:%M")
strftime(dt) ==
    zero_padded(dt.day, 2) \o <<".">> \o zero_padded(dt.month, 2) \o <<".">>
        \o zero_padded(dt.year, 4) \o <<" ">> \o zero_padded(dt.hour, 2) \o <<":">>
        \o zero_padded(dt.minute, 2)

\* the format "%d.%m.%Y %H:%M" as strptime reads it
DateFormat ==
    Cat(<<Grp("d", Rep(Cls(Digits), 1, 2)), Ch("."), Grp("m", Rep(Cls(Digits), 1, 2)), Ch("."),
          Grp("Y", Rep(Cls(Digits), 4, 4)), Plus(Cls(WhiteSpace)),
          Grp("H", Rep(Cls(Digits), 1, 2)), Ch(":"), Grp("M", Rep(Cls(Digits), 1, 2)),
          <<"eol">>>>)

\* the fields of a string the format matches
date_fields(s, m) ==
    [year |-> int_of(match_group(s, m, "Y")), month |-> int_of(match_group(s, m, "m")),
     day |-> int_of(match_group(s, m, "d")), hour |-> int_of(match_group(s, m, "H")),
     minute |-> int_of(match_group(s, m, "M"))]

NoDate == [year |-> 1, month |-> 1, day |-> 1, hour |-> 0, minute |-> 0]

\* datetime.strptime(s, "%d.%m.%Y %H:%M"): the datetime, or that it raises
parsed_date(s, m) ==
    IF m.ok /\ is_date(date_fields(s, m))
    THEN [raises |-> FALSE, dt |-> date_fields(s, m)]
    ELSE [raises |-> TRUE, dt |-> NoDate]

strptime(s) == parsed_date(s, re_match(DateFormat, s))

\* the date four hours later, or the string itself when strptime raised
\* (lines 743-748)
corrected_or_same(date, parsed) ==
    IF parsed.raises THEN date
    ELSE strftime(plus_hours(parsed.dt, ContactCorrectionHours))

\* ContactProcessor._correct_email_time
correct_email_time(date) ==
    IF date = <<>> THEN <<>> ELSE corrected_or_same(date, strptime(date))

\* date_str of process_emails (lines 337-345)
date_str_of(header) ==
    IF header.parsed THEN strftime(plus_hours(header.dt, HeaderCorrectionHours))
    ELSE IF header.raw # <<>> THEN header.raw
    ELSE <<"-">>

\* the Date headers of the messages: the dates of some days at the end and
\* in the middle of a month and of a year, at hours before and after 20:00,
\* and headers that do not parse
DateHeaders ==
    {[parsed |-> TRUE, raw |-> <<>>, dt |-> dt] :
        dt \in {d \in [year : {2024, 2025}, month : {2, 7, 12}, day : {1, 28, 29, 31},
                       hour : {0, 10, 16, 19, 20, 23}, minute : {0, 59}] : is_date(d)}}
    \cup {[parsed |-> FALSE, raw |-> raw, dt |-> NoDate] :
            raw \in {<<>>, <<"2","9",".","0","7",".","2","0","2","5"," ","1","0",":","1","0">>,
                     <<"y","e","s","t","e","r","d","a","y">>}}

DateInit ==
    /\ NoConfig
    /\ DedupIdle
    /\ SigIdle
    /\ RunIdle
    /\ PhoneIdle
    /\ LocateIdle
    /\ ExpandIdle
    /\ ExtractorIdle
    /\ mail_date \in DateHeaders
    /\ date_str = <<>>
    /\ email_date = <<>>
    /\ date_pc = "header"

\* process_emails reads the Date header of the message (lines 337-345)
ReadMailDate ==
    /\ date_pc = "header"
    /\ date_str' = date_str_of(mail_date)
    /\ date_pc' = "read"
    /\ UNCHANGED <<mail_date, email_date, ConfigVars, DedupVars, SigVars, RunVars, PhoneVars,
                   LocateVars, ExpandVars, ExtractorVars>>

\* process_email_signature passes the date to _process_signature_block, which
\* sets the email_date of the Contact (line 438)
SetEmailDate ==
    /\ date_pc = "read"
    /\ email_date' = correct_email_time(date_str)
    /\ date_pc' = "assembled"
    /\ UNCHANGED <<mail_date, date_str, ConfigVars, DedupVars, SigVars, RunVars, PhoneVars,
                   LocateVars, ExpandVars, ExtractorVars>>

DateNext == ReadMailDate \/ SetEmailDate

SpecDate == DateInit /\ [][DateNext]_vars

\* C27: the email_date of a Contact produced through process_emails is the
\* Date header of the message shifted by exactly +4 hours, formatted as
\* dd.mm.yyyy HH:MM
C27_DateShiftedOnce ==
    (date_pc = "assembled" /\ mail_date.parsed)
        => email_date = strftime(plus_hours(mail_date.dt, 4))

(***************************************************************************)
(* get_processing_stats (imap_client.py lines 483-504, contact_processor.py*)
(* lines 879-888).  A percentage is a number of tenths of a percent.       *)
(***************************************************************************)
\* round(part / whole * 100, 1), in tenths
percent_of(part, whole) ==
    LET q == (1000 * part) \div whole
        r == (1000 * part) % whole
    IN  IF 2 * r > whole \/ (2 * r = whole /\ q % 2 = 1) THEN q + 1 ELSE q

\* dict.update: the entries of other replace and extend those of stats
dict_update(stats, other) == other @@ stats

\* ContactProcessor.get_processing_stats
processor_stats_of(stats) ==
    IF stats.processed > 0
    THEN dict_update(stats,
             [high_confidence_percent |-> percent_of(stats.high_confidence, stats.processed),
              issues_percent |-> percent_of(stats.with_issues, stats.processed)])
    ELSE stats

\* lines 489-491 of IMAPClient.get_processing_stats
with_email_percents(stats) ==
    IF stats.total_emails > 0
    THEN dict_update(stats,
             [external_percent |-> percent_of(stats.external_emails, stats.total_emails),
              internal_percent |-> percent_of(stats.internal_emails, stats.total_emails)])
    ELSE stats

\* lines 493-495 of IMAPClient.get_processing_stats
with_contact_percents(stats) ==
    IF stats.processed_contacts > 0
    THEN dict_update(stats,
             [high_quality_percent |-> percent_of(stats.high_quality_contacts,
                                                  stats.processed_contacts),
              rejected_percent |-> percent_of(stats.low_quality_rejected,
                                              stats.processed_contacts)])
    ELSE stats

\* IMAPClient.get_processing_stats: the counters of the client with the
\* percentages, updated with the statistics of the contact processor
get_processing_stats(stats, processor_stats) ==
    dict_update(with_contact_percents(with_email_percents(stats)),
                processor_stats_of(processor_stats))

\* C28: the successful_extractions and failed_extractions that
\* get_processing_stats reports are the counts process_emails accumulated
C28_ReportedExtractionCounts ==
    LET reported == get_processing_stats(imap_stats, cp_stats)
    IN  /\ reported.successful_extractions = imap_stats.successful_extractions
        /\ reported.failed_extractions = imap_stats.failed_extractions

(***************************************************************************)
(* RobustIMAPConnection (seven_months_extractor.py lines 42-155)           *)
(* imaplib is a library: self.mail is the state of the connection ("None", *)
(* "selected", "unselected" for an IMAP4 object that is not logged in or   *)
(* has no mailbox, "closed" after logout), and a call of fetch ends with a *)
(* status or with an exception, whichever the network makes of it.         *)
(***************************************************************************)
\* line 28
MAX_RETRIES == 3

\* max_attempts of connect (line 53)
max_attempts == 3

\* the exceptions of the first except clause of safe_fetch (line 106)
NetworkErrors == {"abort", "OSError"}

\* what one pass of the loop of connect does: the IMAP4 constructor raises,
\* a later call raises, or the mailbox is selected
ConnectionTries == {"refused", "rejected", "selected"}

\* self.mail after one pass of the loop of connect (lines 57-69)
mail_after_try(conn, try) ==
    IF try = "selected" THEN "selected"
    ELSE IF try = "rejected" THEN "unselected"
    ELSE IF conn = "None" THEN "None"
    ELSE "closed"

RECURSIVE mail_after_tries(_, _)
mail_after_tries(conn, tries) ==
    IF tries = <<>> THEN conn
    ELSE mail_after_tries(mail_after_try(conn, Head(tries)), Tail(tries))

\* the passes of the loop of connect: it returns at the first success and
\* gives up after max_attempts failures
connect_tries ==
    {tries \in UNION {[1..n -> ConnectionTries] : n \in 1..max_attempts} :
        /\ \A k \in 1..(Len(tries) - 1) : tries[k] # "selected"
        /\ Len(tries) < max_attempts => tries[Len(tries)] = "selected"}

\* RobustIMAPConnection.connect: what it returns, self.mail after it and the
\* passes of its loop
connect(conn) ==
    {[ok |-> tries[Len(tries)] = "selected", mail |-> mail_after_tries(conn, tries),
      tries |-> tries] : tries \in connect_tries}

\* the data a fetch with the status OK returns
FetchedData == {"data1", "data2"}

\* self.mail.fetch(msg_id, flags) (line 99): a status with the data, or the
\* exception it raises
fetch_outcomes(conn) ==
    IF conn = "None" THEN {[status |-> "AttributeError", data |-> "None"]}
    ELSE IF conn = "selected"
    THEN {[status |-> "OK", data |-> d] : d \in FetchedData}
         \cup {[status |-> st, data |-> "None"] : st \in {"NO", "error"} \cup NetworkErrors}
    ELSE {[status |-> st, data |-> "None"] : st \in {"error"} \cup NetworkErrors}

\* the test of line 109 left out: a reconnect follows every network error
retry_always(attempt) == TRUE

\* attempt < MAX_RETRIES - 1 (line 109)
retry_allowed(attempt) == attempt < MAX_RETRIES - 1

FetchInit ==
    /\ NoConfig
    /\ DedupIdle
    /\ SigIdle
    /\ RunIdle
    /\ PhoneIdle
    /\ LocateIdle
    /\ ExpandIdle
    /\ DateIdle
    /\ MonthIdle
    /\ mail \in {"None", "selected", "closed"}
    /\ fetch_attempt = 0
    /\ fetch_log = <<>>
    /\ fetch_result = [returned |-> FALSE, data |-> "None"]
    /\ fetch_pc = "try"

\* safe_fetch returns
FetchReturns(data) ==
    /\ fetch_result' = [returned |-> TRUE, data |-> data]
    /\ fetch_pc' = "returned"

\* lines 95-122: one pass of the loop up to the return or to the reconnect
TryFetch ==
    /\ fetch_pc = "try"
    /\ fetch_attempt < MAX_RETRIES
    /\ \E fetched \in fetch_outcomes(mail) :
        /\ fetch_log' = Append(fetch_log, [call |-> "fetch", status |-> fetched.status,
                                           data |-> fetched.data, tries |-> <<>>])
        /\ IF fetched.status = "OK" THEN FetchReturns(fetched.data)
           ELSE IF fetched.status \in NetworkErrors /\ retry_allowed(fetch_attempt)
           THEN /\ fetch_pc' = "reconnect"
                /\ UNCHANGED fetch_result
           ELSE FetchReturns("None")
    /\ UNCHANGED <<mail, fetch_attempt, ConfigVars, DedupVars, SigVars, RunVars, PhoneVars,
                   LocateVars, ExpandVars, DateVars, MonthVars>>

\* lines 111-116 and 94: connect is called and, whatever it returns, the loop
\* goes to the next attempt; after the last one the function returns None
\* (line 124)
Reconnect ==
    /\ fetch_pc = "reconnect"
    /\ \E connected \in connect(mail) :
        /\ mail' = connected.mail
        /\ fetch_log' = Append(fetch_log,
                               [call |-> "connect",
                                status |-> IF connected.ok THEN "True" ELSE "False",
                                data |-> "None", tries |-> connected.tries])
    /\ fetch_attempt' = fetch_attempt + 1
    /\ IF fetch_attempt + 1 < MAX_RETRIES
       THEN /\ fetch_pc' = "try"
            /\ UNCHANGED fetch_result
       ELSE FetchReturns("None")
    /\ UNCHANGED <<ConfigVars, DedupVars, SigVars, RunVars, PhoneVars, LocateVars,
                   ExpandVars, DateVars, MonthVars>>

FetchNext == TryFetch \/ Reconnect

\* the calls are made one after the other: a call that can be made is made
SpecFetch == FetchInit /\ [][FetchNext]_vars /\ WF_vars(FetchNext)

\* the calls of the log that are calls of the function
calls_of(log, function) == SelectSeq(log, LAMBDA entry : entry.call = function)

\* what safe_fetch has to return after the calls of the log: the data of the
\* last fetch if its status is OK, else None
data_of_log(log) ==
    IF log # <<>> /\ log[Len(log)].call = "fetch" /\ log[Len(log)].status = "OK"
    THEN log[Len(log)].data
    ELSE "None"

\* C29: safe_fetch returns after at most MAX_RETRIES calls of fetch and at
\* most MAX_RETRIES - 1 calls of connect; it returns the data of a fetch
\* whose status is OK and None in every other case, whatever the fetches and
\* the reconnects end with
C29_SafeFetchReturns ==
    /\ [](/\ Len(calls_of(fetch_log, "fetch")) <= MAX_RETRIES
          /\ Len(calls_of(fetch_log, "connect")) <= MAX_RETRIES - 1
          /\ fetch_result.returned => fetch_result.data = data_of_log(fetch_log)
          /\ ~fetch_result.returned => fetch_result.data = "None")
    /\ <>(fetch_pc = "returned" /\ fetch_result.returned)

\* C29: safe_fetch has returned the data of its third fetch, after two
\* network errors, a reconnect that failed and one that succeeded
C29_Witness ==
    /\ fetch_pc = "returned"
    /\ fetch_result.data \in FetchedData
    /\ Len(calls_of(fetch_log, "fetch")) = MAX_RETRIES
    /\ Len(calls_of(fetch_log, "connect")) = MAX_RETRIES - 1
    /\ fetch_log[2].status = "False"
    /\ fetch_log[4].status = "True"

(***************************************************************************)
(* fetch_emails_month_robust (seven_months_extractor.py lines 244-322)     *)
(* A message is the record of its id and of what becomes of it: "ok",      *)
(* "not_fetched" when safe_fetch returns None for it, "unreadable" when    *)
(* the making of its record raises.  The days of the month are the lists   *)
(* safe_search returns, one after the other.                               *)
(***************************************************************************)
\* line 30
BATCH_SIZE == 50

\* the number of messages of a month
MaxMonthMessages == 53

\* the messages that can be other than "ok": the first one and those after
\* the first BATCH_SIZE messages
TroubledMessages == {1} \cup ((BATCH_SIZE + 1)..MaxMonthMessages)

MessageOutcomes == {"ok", "not_fetched", "unreadable"}

\* the messages of the month in the order of their ids
MonthMessages ==
    {[id \in 1..MaxMonthMessages |->
         [id |-> id, outcome |-> IF id \in TroubledMessages THEN troubles[id] ELSE "ok"]] :
     troubles \in [TroubledMessages -> MessageOutcomes]}

\* the months: all messages on one day, a day without messages before them,
\* or the first BATCH_SIZE messages on the first day and the others on the
\* second
Months ==
    UNION {{<<messages>>, <<<<>>, messages>>,
            <<SubSeq(messages, 1, BATCH_SIZE),
              SubSeq(messages, BATCH_SIZE + 1, MaxMonthMessages)>>} :
           messages \in MonthMessages}

MonthInit ==
    /\ NoConfig
    /\ DedupIdle
    /\ SigIdle
    /\ RunIdle
    /\ PhoneIdle
    /\ LocateIdle
    /\ ExpandIdle
    /\ DateIdle
    /\ FetchIdle
    /\ month_days \in Months
    /\ day_counter = 0
    /\ msg_pos = 0
    /\ processed_emails = 0
    /\ all_records = <<>>
    /\ reconnect_log = <<>>
    /\ fetch_calls = {}
    /\ month_pc = "start"

\* what a step of fetch_emails_month_robust leaves alone
MonthFrame ==
    UNCHANGED <<month_days, fetch_attempt, fetch_log, fetch_result, fetch_pc, ConfigVars,
                DedupVars, SigVars, RunVars, PhoneVars, LocateVars, ExpandVars, DateVars>>

\* lines 249-253: the connection is made, or the function returns []
FirstConnect ==
    /\ month_pc = "start"
    /\ \E connected \in connect(mail) :
        /\ mail' = connected.mail
        /\ month_pc' = IF connected.ok THEN "days" ELSE "returned"
    /\ UNCHANGED <<day_counter, msg_pos, processed_emails, all_records, reconnect_log,
                   fetch_calls>>
    /\ MonthFrame

\* lines 267-279: the next day and its messages, after the messages of the
\* day before
NextDay ==
    /\ month_pc = "days"
    /\ day_counter < Len(month_days)
    /\ day_counter > 0 => msg_pos > Len(month_days[day_counter])
    /\ day_counter' = day_counter + 1
    /\ msg_pos' = 1
    /\ UNCHANGED <<mail, processed_emails, all_records, reconnect_log, fetch_calls, month_pc>>
    /\ MonthFrame

\* processed_emails > 0 and processed_emails % BATCH_SIZE == 0 (line 284)
at_batch_boundary(processed) == processed > 0 /\ processed % BATCH_SIZE = 0

\* lines 291-313: safe_fetch is called for the message and the record is made
FetchMessage(msg) ==
    /\ fetch_calls' = fetch_calls \cup {msg.id}
    /\ IF msg.outcome = "ok"
       THEN /\ all_records' = Append(all_records, msg.id)
            /\ processed_emails' = processed_emails + 1
       ELSE UNCHANGED <<all_records, processed_emails>>

\* lines 282-313: one pass of the loop over the messages of the day
NextMessage ==
    /\ month_pc = "days"
    /\ day_counter > 0
    /\ msg_pos <= Len(month_days[day_counter])
    /\ IF at_batch_boundary(processed_emails)
       THEN \E connected \in connect(mail) :
               /\ mail' = connected.mail
               /\ reconnect_log' = Append(reconnect_log, processed_emails)
               /\ IF connected.ok
                  THEN FetchMessage(month_days[day_counter][msg_pos])
                  ELSE UNCHANGED <<fetch_calls, all_records, processed_emails>>
       ELSE /\ FetchMessage(month_days[day_counter][msg_pos])
            /\ UNCHANGED <<mail, reconnect_log>>
    /\ msg_pos' = msg_pos + 1
    /\ UNCHANGED <<day_counter, month_pc>>
    /\ MonthFrame

\* lines 320-322: after the last day the connection is closed and the
\* records are returned
CloseMonth ==
    /\ month_pc = "days"
    /\ day_counter = Len(month_days)
    /\ msg_pos > Len(month_days[day_counter])
    /\ mail' = "closed"
    /\ month_pc' = "returned"
    /\ UNCHANGED <<day_counter, msg_pos, processed_emails, all_records, reconnect_log,
                   fetch_calls>>
    /\ MonthFrame

MonthNext == FirstConnect \/ NextDay \/ NextMessage \/ CloseMonth

SpecMonth == MonthInit /\ [][MonthNext]_vars

\* the ids of the messages the loop has passed
passed_ids ==
    {month_days[d][k].id : <<d, k>> \in
        {<<d, k>> \in (1..day_counter) \X (1..MaxMonthMessages) :
            /\ k <= Len(month_days[d])
            /\ d = day_counter => k < msg_pos}}

\* C30: between two consecutive preventive reconnects at least BATCH_SIZE
\* messages are added to the records, and safe_fetch is called for every
\* message of the lists the search returned
C30_ReconnectOncePerBatch ==
    /\ \A k \in 1..(Len(reconnect_log) - 1) :
          reconnect_log[k + 1] - reconnect_log[k] >= BATCH_SIZE
    /\ passed_ids \subseteq fetch_calls

====
